---- MODULE Spec2Model ----
(***************************************************************************)
(* Relation resolution of the SELECT analyzer:                             *)
(*   RelationRPNBuilder  (statement_select_analyze_data.rs, 178-263)       *)
(*   AnalyzeQueryState   (statement_select_analyze_data.rs,  14-154)       *)
(* A FROM clause is flattened into a postfix sequence of relation operands *)
(* and join operators, and AnalyzeQueryState::create consumes the sequence *)
(* item by item, resolving each operand against the catalog, the table     *)
(* function registry or the nested statement analysis.                     *)
(***************************************************************************)
EXTENDS Integers, Sequences, FiniteSets, TLC

VARIABLES
    tables,            \* create's argument: the FROM clause, &[TableWithJoins]
    current_database,  \* ctx.get_current_database()
    pc,                \* position of create: "build", "loop", "done"
    rpn,               \* the sequence returned by RelationRPNBuilder::build
    idx,               \* 1-based index of the next rpn item of the for loop
    resolving,         \* operand resolutions begun and not yet completed
    analyzed_tables,   \* create's local Vec of resolved schemas
    calls,             \* calls made to the collaborators, in order
    result,            \* what create returned, once pc = "done"
    frames,            \* the suspended creates of the enclosing statements
    column,            \* the input column of a scalar function
    series,            \* the column the scalar function returned
    deserializer       \* a DateTimeDeserializer: its builder and its tz

\* the variables of the scalar functions
value_vars == <<column, series, deserializer>>

vars == <<tables, current_database, pc, rpn, idx, resolving, analyzed_tables,
          calls, result, frames, value_vars>>

(***************************************************************************)
(* Values.  Option<T> is a sequence of length 0 (None) or 1 (Some).        *)
(***************************************************************************)
None == <<>>

Some(v) == <<v>>

IsEmpty(s) == Len(s) = 0

\* ErrorCode::<code>(msg); a backquote of a message is written as a quote
Error(code, msg) == [code |-> code, msg |-> msg]

\* The error kinds of the taxonomy a code belongs to.
KindOf(code) ==
    CASE code \in {"SyntaxException", "UnImplement"} -> "Unsupported"
      [] code = "BadArguments" -> "BadArguments"
      [] code \in {"UnknownTable", "UnknownFunction"} -> "NotFound"
      [] code = "LogicalError" -> "Internal"
      [] OTHER -> "Other"

(***************************************************************************)
(* sqlparser's TableFactor and TableWithJoins.  Every factor is a record   *)
(* of one shape; the fields a variant does not have are empty.             *)
(***************************************************************************)
Factor(kind, name, args, alias, with_hints, lateral, subquery, nested) ==
    [kind |-> kind, name |-> name, args |-> args, alias |-> alias,
     with_hints |-> with_hints, lateral |-> lateral, subquery |-> subquery,
     nested |-> nested]

\* TableFactor::Table { name, args, alias, with_hints }
TableF(name, args, alias, with_hints) ==
    Factor("Table", name, args, alias, with_hints, FALSE, "", <<>>)

\* TableFactor::Derived { lateral, subquery, alias }
DerivedF(lateral, subquery, alias) ==
    Factor("Derived", <<>>, <<>>, alias, <<>>, lateral, subquery, <<>>)

\* TableFactor::NestedJoin(joins)
NestedJoinF(twj) ==
    Factor("NestedJoin", <<>>, <<>>, None, <<>>, FALSE, "", <<twj>>)

\* TableFactor::TableFunction { .. }
InlineTableFunctionF ==
    Factor("TableFunction", <<>>, <<>>, None, <<>>, FALSE, "", <<>>)

\* FunctionArg::Named { name, arg } and FunctionArg::Unnamed(arg)
NamedArg(n, e) == [named |-> TRUE, name |-> n, arg |-> e]

UnnamedArg(e) == [named |-> FALSE, name |-> "", arg |-> e]

(***************************************************************************)
(* The items of the RPN.                                                   *)
(***************************************************************************)
RPNItem(kind, name, alias, args, subquery, op) ==
    [kind |-> kind, name |-> name, alias |-> alias, args |-> args,
     subquery |-> subquery, op |-> op]

\* RelationRPNItem::Table(TableRPNItem { name, alias })
TableRPNItem(name, alias) == RPNItem("Table", name, alias, <<>>, "", "")

\* RelationRPNItem::TableFunction(TableFunctionRPNItem { name, args })
TableFunctionRPNItem(name, args) ==
    RPNItem("TableFunction", name, None, args, "", "")

\* RelationRPNItem::Derived(DerivedRPNItem { subquery, alias })
DerivedRPNItem(subquery, alias) ==
    RPNItem("Derived", <<>>, alias, <<>>, subquery, "")

\* RelationRPNItem::Join(JoinOperator)
JoinRPNItem(op) == RPNItem("Join", <<>>, None, <<>>, "", op)

IsOperand(item) == item.kind \in {"Table", "TableFunction", "Derived"}

(***************************************************************************)
(* RelationRPNBuilder.  Each visit takes the builder's rpn and returns     *)
(* Ok with the extended rpn, or the error that `?` propagates.             *)
(***************************************************************************)
BOk(r) == [ok |-> TRUE, rpn |-> r, err |-> Error("", "")]

BErr(e) == [ok |-> FALSE, rpn |-> <<>>, err |-> e]

\* visit_dummy_table naming the table without its database
visit_dummy_table_bare_name(r) == Append(r, TableRPNItem(<<"one">>, None))

\* fn visit_dummy_table(&mut self)
visit_dummy_table(r) == Append(r, TableRPNItem(<<"system", "one">>, None))

\* fn visit_table(&mut self, name, alias)
visit_table(r, name, alias) == BOk(Append(r, TableRPNItem(name, alias)))

\* fn visit_table_function(&mut self, name, args)
visit_table_function(r, name, args) ==
    BOk(Append(r, TableFunctionRPNItem(name, args)))

RECURSIVE visit_table_factor(_, _), visit_joins(_, _), visit_join_list(_, _, _)

\* visit_table_factor with the check of with_hints left out
visit_table_factor_no_hint_check(r, factor) ==
    CASE factor.kind = "Table" ->
           IF IsEmpty(factor.args)
           THEN visit_table(r, factor.name, factor.alias)
           ELSE IF factor.alias = None
                THEN visit_table_function(r, factor.name, factor.args)
                ELSE BErr(Error("SyntaxException",
                                "Table function cannot named."))
      [] factor.kind = "Derived" ->
           IF factor.lateral
           THEN BErr(Error("UnImplement", "Cannot SELECT LATERAL subquery."))
           ELSE BOk(Append(r, DerivedRPNItem(factor.subquery, factor.alias)))
      [] factor.kind = "NestedJoin" -> visit_joins(r, factor.nested[1])
      [] factor.kind = "TableFunction" ->
           BErr(Error("UnImplement", "Unsupported table function"))

\* fn visit_table_factor(&mut self, factor)
visit_table_factor(r, factor) ==
    CASE factor.kind = "Table" ->
           IF ~IsEmpty(factor.with_hints)
           THEN BErr(Error("SyntaxException",
                           "MSSQL-specific 'WITH (...)' hints is unsupported."))
           ELSE IF IsEmpty(factor.args)
                THEN visit_table(r, factor.name, factor.alias)
                ELSE IF factor.alias = None
                     THEN visit_table_function(r, factor.name, factor.args)
                     ELSE BErr(Error("SyntaxException",
                                     "Table function cannot named."))
      [] factor.kind = "Derived" ->
           IF factor.lateral
           THEN BErr(Error("UnImplement", "Cannot SELECT LATERAL subquery."))
           ELSE BOk(Append(r, DerivedRPNItem(factor.subquery, factor.alias)))
      [] factor.kind = "NestedJoin" -> visit_joins(r, factor.nested[1])
      [] factor.kind = "TableFunction" ->
           BErr(Error("UnImplement", "Unsupported table function"))

\* visit_join_list with the push of the join operator left out
visit_join_list_no_operator(r, joins, i) ==
    IF i > Len(joins)
    THEN BOk(r)
    ELSE LET f == visit_table_factor(r, joins[i].relation) IN
         IF ~f.ok THEN f ELSE visit_join_list(f.rpn, joins, i + 1)

\* visit_join_list with the join operator pushed before its joined relation
visit_join_list_infix(r, joins, i) ==
    IF i > Len(joins)
    THEN BOk(r)
    ELSE LET f == visit_table_factor(
                      Append(r, JoinRPNItem(joins[i].join_operator)),
                      joins[i].relation) IN
         IF ~f.ok THEN f ELSE visit_join_list(f.rpn, joins, i + 1)

\* the `for join in &expr.joins` loop of visit_joins, from its i-th join on
visit_join_list(r, joins, i) ==
    IF i > Len(joins)
    THEN BOk(r)
    ELSE LET f == visit_table_factor(r, joins[i].relation) IN
         IF ~f.ok
         THEN f
         ELSE visit_join_list(Append(f.rpn, JoinRPNItem(joins[i].join_operator)),
                              joins, i + 1)

\* fn visit_joins(&mut self, expr)
visit_joins(r, expr) ==
    LET f == visit_table_factor(r, expr.relation) IN
    IF ~f.ok THEN f ELSE visit_join_list(f.rpn, expr.joins, 1)

RECURSIVE visit_from(_, _, _)

\* visit_from with the CrossJoin pushed after every entry, the first included
visit_from_eager_cross(r, exprs, i) ==
    IF i > Len(exprs)
    THEN BOk(r)
    ELSE LET j == visit_joins(r, exprs[i]) IN
         IF ~j.ok
         THEN j
         ELSE visit_from(Append(j.rpn, JoinRPNItem("CrossJoin")), exprs, i + 1)

\* the `for expr in exprs` loop of visit, from its i-th entry on
visit_from(r, exprs, i) ==
    IF i > Len(exprs)
    THEN BOk(r)
    ELSE IF IsEmpty(r)
         THEN LET j == visit_joins(r, exprs[i]) IN
              IF ~j.ok THEN j ELSE visit_from(j.rpn, exprs, i + 1)
         ELSE LET j == visit_joins(r, exprs[i]) IN
              IF ~j.ok
              THEN j
              ELSE visit_from(Append(j.rpn, JoinRPNItem("CrossJoin")),
                              exprs, i + 1)

\* fn visit(&mut self, exprs)
visit(r, exprs) == visit_from(r, exprs, 1)

\* pub fn build(exprs) -> Result<Vec<RelationRPNItem>>
build(exprs) ==
    IF IsEmpty(exprs) THEN BOk(visit_dummy_table(<<>>)) ELSE visit(<<>>, exprs)

(***************************************************************************)
(* Schemas.  A DataSchema is the sequence of its column names; an          *)
(* AnalyzeQuerySchema is a sequence of columns, each with its name-prefix. *)
(***************************************************************************)
\* DataSchema::empty()
DataSchemaEmpty == <<>>

\* AnalyzeQuerySchema::none()
AnalyzeQuerySchemaNone == <<>>

\* AnalyzeQuerySchema::from_schema(schema, name_prefix)
from_schema(schema, name_prefix) ==
    [i \in 1..Len(schema) |-> [prefix |-> name_prefix, name |-> schema[i]]]

(***************************************************************************)
(* The collaborators of the context, as a fixed fixture.                   *)
(***************************************************************************)
\* the tables of the catalog and their stored schemas
Catalog ==
    [default |-> [a |-> <<"id">>, b |-> <<"id", "x">>, c |-> <<"x", "y">>],
     system  |-> [one |-> <<"dummy">>],
     db1     |-> [t |-> <<"k", "v">>]]

\* ctx.get_table(database, table)
get_table(database, table) ==
    IF database \in DOMAIN Catalog /\ table \in DOMAIN Catalog[database]
    THEN [ok |-> TRUE, schema |-> Catalog[database][table],
          err |-> Error("", "")]
    ELSE [ok |-> FALSE, schema |-> <<>>,
          err |-> Error("UnknownTable", "Unknown table")]

\* the registry of table functions and their declared schemas
TableFunctions == [numbers |-> <<"number">>]

\* ctx.get_table_function(name, Some(table_args))
get_table_function(table_name, table_args) ==
    IF table_name \in DOMAIN TableFunctions
    THEN [ok |-> TRUE, schema |-> TableFunctions[table_name],
          err |-> Error("", "")]
    ELSE [ok |-> FALSE, schema |-> <<>>,
          err |-> Error("UnknownFunction", "Unknown table function")]

\* analyzer.analyze(arg), the analyzer bound to the empty schema: a literal
\* is analysed to an expression, a column reference finds no column
analyze_arg(arg) ==
    IF arg \in {"1", "2"}
    THEN [ok |-> TRUE, expr |-> <<"Literal", arg>>, err |-> Error("", "")]
    ELSE [ok |-> FALSE, expr |-> <<>>,
          err |-> Error("UnknownColumn", "Unknown column")]

\* DfQueryStatement::try_from(subquery)
try_from(subquery) ==
    IF subquery = "q_limit_by"
    THEN [ok |-> FALSE, err |-> Error("SyntaxException", "Unsupported query")]
    ELSE [ok |-> TRUE, err |-> Error("", "")]

\* subquery.analyze(ctx): the AnalyzedResult of the nested statement; the
\* state of a select query holds the joined schema of its own FROM clause
\* and the schema of its output.  q_select_x is SELECT x FROM b and
\* q_select_id_x is SELECT id, x FROM b.
analyze_statement(subquery) ==
    CASE subquery = "q_select_x" ->
           [ok |-> TRUE, variant |-> "SelectQuery",
            joined_schema |-> from_schema(<<"id", "x">>, <<"default", "b">>),
            finalize_schema |-> <<"x">>, err |-> Error("", "")]
      [] subquery = "q_select_id_x" ->
           [ok |-> TRUE, variant |-> "SelectQuery",
            joined_schema |-> from_schema(<<"id", "x">>, <<"default", "b">>),
            finalize_schema |-> <<"id", "x">>, err |-> Error("", "")]
      [] subquery = "q_explain" ->
           [ok |-> TRUE, variant |-> "Explain", joined_schema |-> <<>>,
            finalize_schema |-> <<>>, err |-> Error("", "")]
      [] OTHER ->
           [ok |-> FALSE, variant |-> "", joined_schema |-> <<>>,
            finalize_schema |-> <<>>,
            err |-> Error("UnknownTable", "Unknown table")]

(***************************************************************************)
(* AnalyzeQueryState.                                                      *)
(***************************************************************************)
\* Result<AnalyzeQueryState>
Ok(state) == [ok |-> TRUE, state |-> Some(state), err |-> Error("", "")]

Err(e) == [ok |-> FALSE, state |-> None, err |-> e]

\* resolve_table with the default database in place of the context's
resolve_table_default_database(name, ctx_database) ==
    CASE Len(name) = 0 ->
           [ok |-> FALSE, database |-> "", table |-> "", consulted |-> FALSE,
            err |-> Error("SyntaxException", "Table name is empty")]
      [] Len(name) = 1 ->
           [ok |-> TRUE, database |-> "default", table |-> name[1],
            consulted |-> FALSE, err |-> Error("", "")]
      [] Len(name) = 2 ->
           [ok |-> TRUE, database |-> name[1], table |-> name[2],
            consulted |-> FALSE, err |-> Error("", "")]
      [] OTHER ->
           [ok |-> FALSE, database |-> "", table |-> "", consulted |-> FALSE,
            err |-> Error("SyntaxException",
                          "Table name must be ['db'].'table'")]

\* fn resolve_table(name, ctx) -> Result<(String, String)>; consulted tells
\* whether ctx.get_current_database() was evaluated
resolve_table(name, ctx_database) ==
    CASE Len(name) = 0 ->
           [ok |-> FALSE, database |-> "", table |-> "", consulted |-> FALSE,
            err |-> Error("SyntaxException", "Table name is empty")]
      [] Len(name) = 1 ->
           [ok |-> TRUE, database |-> ctx_database, table |-> name[1],
            consulted |-> TRUE, err |-> Error("", "")]
      [] Len(name) = 2 ->
           [ok |-> TRUE, database |-> name[1], table |-> name[2],
            consulted |-> FALSE, err |-> Error("", "")]
      [] OTHER ->
           [ok |-> FALSE, database |-> "", table |-> "", consulted |-> FALSE,
            err |-> Error("SyntaxException",
                          "Table name must be ['db'].'table'")]

\* table_name_prefix with the alias ignored
table_name_prefix_ignores_alias(item, database, table) == <<database, table>>

\* the name_prefix analyze_table gives to from_schema
table_name_prefix(item, database, table) ==
    IF item.alias = None THEN <<database, table>> ELSE <<item.alias[1]>>

\* subquery_name_prefix with the alias dropped
subquery_name_prefix_drops_alias(item) == <<>>

\* the name_prefix analyze_subquery gives to from_schema
subquery_name_prefix(item) ==
    IF item.alias = None THEN <<>> ELSE <<item.alias[1]>>

\* subquery_schema reading the columns the nested statement selects from
subquery_schema_joined(analyzed) ==
    [j \in 1..Len(analyzed.joined_schema) |-> analyzed.joined_schema[j].name]

\* the schema analyze_subquery gives to from_schema:
\* state.finalize_schema.clone()
subquery_schema(analyzed) == analyzed.finalize_schema

\* NewState with the output schema filled from the joined schema
NewState_fills_finalize(joined_schema) ==
    [joined_schema |-> joined_schema,
     before_aggr_schema |-> AnalyzeQuerySchemaNone,
     after_aggr_schema |-> AnalyzeQuerySchemaNone,
     finalize_schema |->
         [j \in 1..Len(joined_schema) |-> joined_schema[j].name],
     relation |-> None,
     filter_predicate |-> None,
     before_group_by_expressions |-> <<>>,
     group_by_expressions |-> <<>>,
     aggregate_expressions |-> <<>>,
     before_having_expressions |-> <<>>,
     having_predicate |-> None,
     order_by_expressions |-> <<>>,
     projection_expressions |-> <<>>,
     projection_aliases |-> <<>>]

\* the state create returns, Ok(AnalyzeQueryState { .. })
NewState(joined_schema) ==
    [joined_schema |-> joined_schema,
     before_aggr_schema |-> AnalyzeQuerySchemaNone,
     after_aggr_schema |-> AnalyzeQuerySchemaNone,
     finalize_schema |-> DataSchemaEmpty,
     relation |-> None,
     filter_predicate |-> None,
     before_group_by_expressions |-> <<>>,
     group_by_expressions |-> <<>>,
     aggregate_expressions |-> <<>>,
     before_having_expressions |-> <<>>,
     having_predicate |-> None,
     order_by_expressions |-> <<>>,
     projection_expressions |-> <<>>,
     projection_aliases |-> <<>>]

\* a call to a collaborator, made for rpn item i with `pushed` schemas
\* resolved so far, by the create of the statement nested `depth` deep
Call(fn, i, args) ==
    [fn |-> fn, item |-> i, args |-> args, pushed |-> Len(analyzed_tables),
     depth |-> Len(frames)]

\* an operand resolution in progress: the future of analyze_table,
\* analyze_table_function or analyze_subquery; pending tells that
\* analyzer.analyze(arg) was called and its result is not taken yet
Resolving(database, table, table_args) ==
    [database |-> database, table |-> table, table_args |-> table_args,
     pending |-> FALSE]

Drop(f, i) == [j \in (DOMAIN f) \ {i} |-> f[j]]

\* Awaited with the futures started and never awaited before the next item
Awaited_not_awaited == TRUE

\* `schema.await?` of lines 47, 51, 55: the loop body does not go on to the
\* next item while a resolution is pending
Awaited == DOMAIN resolving = {}

\* Fail with the error dropped and the loop going on
Fail_swallowed(e) ==
    /\ result' = result
    /\ pc' = pc
    /\ resolving' = <<>>

\* an error returned by `?` or `return Err(..)`: create returns it
Fail(e) ==
    /\ result' = Some(Err(e))
    /\ pc' = "done"
    /\ resolving' = <<>>

\* a panic: create unwinds and never returns
Panic ==
    /\ pc' = "panicked"
    /\ resolving' = <<>>
    /\ UNCHANGED result

\* analyzed_tables.push(schema.await?) for the resolution of item i
Push(i, schema) ==
    /\ analyzed_tables' = Append(analyzed_tables, schema)
    /\ resolving' = Drop(resolving, i)

\* the for loop takes its next item
Take(kind) ==
    /\ pc = "loop"
    /\ Awaited
    /\ idx <= Len(rpn)
    /\ rpn[idx].kind = kind
    /\ idx' = idx + 1

(***************************************************************************)
(* The inputs: FROM clauses by number of table factors and nesting depth.  *)
(***************************************************************************)
\* the table factors of a clause drawn from Leaves
MaxLeaves == 2

\* the table factors of a clause drawn from ShapeLeaves
MaxShapeLeaves == 3

\* the depth of nesting of parenthesised join groups
MaxDepth == 1

Databases == {"default", "db1"}

JoinOperators == {"Inner", "CrossJoin"}

Lit(e) == UnnamedArg(e)

\* the table factors that are not join groups
Leaves ==
    { TableF(<<"a">>, <<>>, None, <<>>),
      TableF(<<"b">>, <<>>, None, <<>>),
      TableF(<<"db1", "t">>, <<>>, None, <<>>),
      TableF(<<"a">>, <<>>, Some("s"), <<>>),
      TableF(<<"x", "y", "z">>, <<>>, None, <<>>),
      TableF(<<>>, <<>>, None, <<>>),
      TableF(<<"a">>, <<>>, None, <<"NOLOCK">>),
      TableF(<<"numbers">>, <<Lit("1"), NamedArg("n", "2")>>, None, <<>>),
      TableF(<<"numbers">>, <<Lit("1"), Lit("col"), Lit("2")>>, None, <<>>),
      TableF(<<"numbers">>, <<Lit("1")>>, Some("s"), <<>>),
      TableF(<<"db1", "numbers">>, <<Lit("1")>>, None, <<>>),
      TableF(<<"db1", "numbers">>, <<Lit("1")>>, Some("s"), <<>>),
      TableF(<<"nofn">>, <<Lit("1")>>, None, <<>>),
      TableF(<<>>, <<Lit("1")>>, None, <<>>),
      TableF(<<"numbers">>, <<Lit("1")>>, None, <<"NOLOCK">>),
      DerivedF(FALSE, "q_select_x", Some("s")),
      DerivedF(FALSE, "q_select_id_x", None),
      DerivedF(TRUE, "q_select_x", Some("s")),
      DerivedF(FALSE, "q_explain", Some("s")),
      DerivedF(FALSE, "q_missing", None),
      DerivedF(FALSE, "q_limit_by", None),
      InlineTableFunctionF }

\* the place of the k-th table factor of a clause, counted left to right
Hole(k) == Factor("Hole", <<>>, <<>>, None, <<>>, FALSE, "", <<k>>)

\* the table factors of the deeper clauses
ShapeLeaves ==
    { TableF(<<"a">>, <<>>, None, <<>>),
      TableF(<<"b">>, <<>>, None, <<>>),
      TableF(<<"c">>, <<>>, None, <<>>),
      DerivedF(TRUE, "q_select_x", Some("s")) }

RECURSIVE FactorsN(_, _, _), TWJsN(_, _, _), JoinsN(_, _, _), FromsN(_, _, _)

\* the shapes of a table factor over the places lo+1 .. lo+n, nested to depth
\* d at most; a parenthesised join group holds two factors or more
FactorsN(lo, n, d) ==
    (IF n = 1 THEN {Hole(lo + 1)} ELSE {})
    \cup (IF d > 0 /\ n > 1
          THEN {NestedJoinF(t) : t \in TWJsN(lo, n, d - 1)}
          ELSE {})

\* the shapes of a join list over the places lo+1 .. lo+n
JoinsN(lo, n, d) ==
    IF n = 0
    THEN {<<>>}
    ELSE UNION { { <<[relation |-> f, join_operator |-> o]>> \o js :
                       f \in FactorsN(lo, k, d), o \in JoinOperators,
                       js \in JoinsN(lo + k, n - k, d) } : k \in 1..n }

\* the shapes of a TableWithJoins over the places lo+1 .. lo+n
TWJsN(lo, n, d) ==
    UNION { { [relation |-> f, joins |-> js] :
                  f \in FactorsN(lo, k, d), js \in JoinsN(lo + k, n - k, d) } :
            k \in 1..n }

\* the shapes of a FROM clause over the places lo+1 .. lo+n
FromsN(lo, n, d) ==
    IF n = 0
    THEN {<<>>}
    ELSE UNION { { <<t>> \o rest :
                       t \in TWJsN(lo, k, d),
                       rest \in FromsN(lo + k, n - k, d) } : k \in 1..n }

RECURSIVE Fill(_, _), FillTWJ(_, _)

\* the factor of shape f with the table factors ls in its places
Fill(f, ls) ==
    IF f.kind = "Hole"
    THEN ls[f.nested[1]]
    ELSE NestedJoinF(FillTWJ(f.nested[1], ls))

FillTWJ(t, ls) ==
    [relation |-> Fill(t.relation, ls),
     joins |-> [i \in 1..Len(t.joins) |->
                   [relation |-> Fill(t.joins[i].relation, ls),
                    join_operator |-> t.joins[i].join_operator]]]

FillFrom(shape, ls) == [i \in 1..Len(shape) |-> FillTWJ(shape[i], ls)]

Init ==
    /\ \/ \E n \in 0..MaxLeaves :
              \E shape \in FromsN(0, n, MaxDepth) :
                \E ls \in [1..n -> Leaves] : tables = FillFrom(shape, ls)
       \/ \E n \in 0..MaxShapeLeaves :
              \E shape \in FromsN(0, n, MaxDepth) :
                \E ls \in [1..n -> ShapeLeaves] : tables = FillFrom(shape, ls)
    /\ current_database \in Databases
    /\ pc = "build"
    /\ rpn = <<>>
    /\ idx = 1
    /\ resolving = <<>>
    /\ analyzed_tables = <<>>
    /\ calls = <<>>
    /\ result = None
    /\ frames = <<>>
    /\ column = <<>>
    /\ series = None
    /\ deserializer = None

\* Build handing the loop the items of the entries visited before the one
\* the builder rejects
Build_lazy ==
    /\ pc = "build"
    /\ LET b == build(tables)
           visited == {k \in 1..Len(tables) : build(SubSeq(tables, 1, k)).ok}
       IN
       IF b.ok \/ visited /= {}
       THEN /\ rpn' = IF b.ok
                      THEN b.rpn
                      ELSE build(SubSeq(tables, 1,
                               CHOOSE k \in visited :
                                   \A k2 \in visited : k2 <= k)).rpn
            /\ pc' = "loop"
            /\ UNCHANGED <<resolving, result>>
       ELSE /\ Fail(b.err)
            /\ UNCHANGED rpn
    /\ UNCHANGED <<tables, current_database, idx, analyzed_tables, calls>>
    /\ UNCHANGED <<frames, value_vars>>

\* let rpn = RelationRPNBuilder::build(tables)?;
Build ==
    /\ pc = "build"
    /\ LET b == build(tables) IN
       IF b.ok
       THEN /\ rpn' = b.rpn
            /\ pc' = "loop"
            /\ UNCHANGED <<resolving, result>>
       ELSE /\ Fail(b.err)
            /\ UNCHANGED rpn
    /\ UNCHANGED <<tables, current_database, idx, analyzed_tables, calls>>
    /\ UNCHANGED <<frames, value_vars>>

\* LoopJoin going on to the next item
LoopJoin_skips ==
    /\ Take("Join")
    /\ UNCHANGED <<pc, result, resolving>>
    /\ UNCHANGED <<tables, current_database, rpn, analyzed_tables, calls>>
    /\ UNCHANGED <<frames, value_vars>>

\* RelationRPNItem::Join(_) => return Err(UnImplement)
LoopJoin ==
    /\ Take("Join")
    /\ Fail(Error("UnImplement", "Unimplemented SELECT JOIN yet."))
    /\ UNCHANGED <<tables, current_database, rpn, analyzed_tables, calls>>
    /\ UNCHANGED <<frames, value_vars>>

\* analyze_table up to the call of ctx.get_table
AnalyzeTable ==
    /\ Take("Table")
    /\ LET r == resolve_table(rpn[idx].name, current_database)
           log == IF r.consulted
                  THEN Append(calls, Call("get_current_database", idx, <<>>))
                  ELSE calls
       IN
       IF ~r.ok
       THEN /\ Fail(r.err)
            /\ calls' = log
       ELSE /\ calls' = Append(log, Call("get_table", idx,
                                         <<r.database, r.table>>))
            /\ resolving' =
                   (idx :> Resolving(r.database, r.table, <<>>)) @@ resolving
            /\ UNCHANGED <<pc, result>>
    /\ UNCHANGED <<tables, current_database, rpn, analyzed_tables>>
    /\ UNCHANGED <<frames, value_vars>>

\* analyze_table from the return of ctx.get_table
GetTableReturn(i) ==
    /\ pc = "loop"
    /\ i \in DOMAIN resolving
    /\ rpn[i].kind = "Table"
    /\ LET read_table == get_table(resolving[i].database, resolving[i].table)
       IN
       IF ~read_table.ok
       THEN /\ Fail(read_table.err)
            /\ UNCHANGED analyzed_tables
       ELSE /\ Push(i, from_schema(read_table.schema,
                       table_name_prefix(rpn[i], resolving[i].database,
                                         resolving[i].table)))
            /\ UNCHANGED <<pc, result>>
    /\ UNCHANGED <<tables, current_database, rpn, idx, calls>>
    /\ UNCHANGED <<frames, value_vars>>

\* analyze_table_function up to the for loop over the arguments
AnalyzeTableFunction ==
    /\ Take("TableFunction")
    /\ IF Len(rpn[idx].name) >= 2
       THEN Fail(Error("BadArguments", "Currently table can't have arguments"))
       ELSE IF Len(rpn[idx].name) = 0
       THEN Panic
       ELSE /\ resolving' =
                   (idx :> Resolving("", rpn[idx].name[1], <<>>)) @@ resolving
            /\ UNCHANGED <<pc, result>>
    /\ UNCHANGED <<tables, current_database, rpn, analyzed_tables, calls>>
    /\ UNCHANGED <<frames, value_vars>>

\* the schema the analyzer of the arguments is bound to:
\* ExpressionAnalyzer::with_source(ctx, Arc::new(AnalyzeQuerySchema::none()))
analyzer_schema == AnalyzeQuerySchemaNone

\* one iteration of `for table_arg in &item.args`, up to the call of
\* analyzer.analyze(arg)
AnalyzeArg(i) ==
    /\ pc = "loop"
    /\ i \in DOMAIN resolving
    /\ rpn[i].kind = "TableFunction"
    /\ ~resolving[i].pending
    /\ Len(resolving[i].table_args) < Len(rpn[i].args)
    /\ LET table_arg == rpn[i].args[Len(resolving[i].table_args) + 1] IN
       calls' = Append(calls, Call("analyze", i,
                                   <<table_arg.arg, analyzer_schema>>))
    /\ resolving' = [resolving EXCEPT ![i].pending = TRUE]
    /\ UNCHANGED <<pc, result>>
    /\ UNCHANGED <<tables, current_database, rpn, idx, analyzed_tables>>
    /\ UNCHANGED <<frames, value_vars>>

\* the iteration from the return of analyzer.analyze(arg): `.await?` and
\* table_args.push
AnalyzeArgReturn(i) ==
    /\ pc = "loop"
    /\ i \in DOMAIN resolving
    /\ rpn[i].kind = "TableFunction"
    /\ resolving[i].pending
    /\ LET table_arg == rpn[i].args[Len(resolving[i].table_args) + 1]
           a == analyze_arg(table_arg.arg)
       IN
       IF ~a.ok
       THEN Fail(a.err)
       ELSE /\ resolving' =
                   [resolving EXCEPT ![i].table_args = Append(@, a.expr),
                                     ![i].pending = FALSE]
            /\ UNCHANGED <<pc, result>>
    /\ UNCHANGED <<tables, current_database, rpn, idx, analyzed_tables, calls>>
    /\ UNCHANGED <<frames, value_vars>>

\* GetTableFunction asking the registry before the loop over the arguments
\* has ended
GetTableFunction_early(i) ==
    /\ pc = "loop"
    /\ i \in DOMAIN resolving
    /\ rpn[i].kind = "TableFunction"
    /\ LET table_function ==
               get_table_function(resolving[i].table, resolving[i].table_args)
       IN
       /\ calls' = Append(calls, Call("get_table_function", i,
                              <<resolving[i].table, resolving[i].table_args>>))
       /\ IF ~table_function.ok
          THEN /\ Fail(table_function.err)
               /\ UNCHANGED analyzed_tables
          ELSE /\ Push(i, from_schema(table_function.schema, <<>>))
               /\ UNCHANGED <<pc, result>>
    /\ UNCHANGED <<tables, current_database, rpn, idx>>
    /\ UNCHANGED <<frames, value_vars>>

\* ctx.get_table_function(&table_name, Some(table_args))? and from_schema
GetTableFunction(i) ==
    /\ pc = "loop"
    /\ i \in DOMAIN resolving
    /\ rpn[i].kind = "TableFunction"
    /\ Len(resolving[i].table_args) = Len(rpn[i].args)
    /\ LET table_function ==
               get_table_function(resolving[i].table, resolving[i].table_args)
       IN
       /\ calls' = Append(calls, Call("get_table_function", i,
                              <<resolving[i].table, resolving[i].table_args>>))
       /\ IF ~table_function.ok
          THEN /\ Fail(table_function.err)
               /\ UNCHANGED analyzed_tables
          ELSE /\ Push(i, from_schema(table_function.schema, <<>>))
               /\ UNCHANGED <<pc, result>>
    /\ UNCHANGED <<tables, current_database, rpn, idx>>
    /\ UNCHANGED <<frames, value_vars>>

\* analyze_subquery up to the call of subquery.analyze
AnalyzeSubquery ==
    /\ Take("Derived")
    /\ LET subquery == try_from(rpn[idx].subquery) IN
       IF ~subquery.ok
       THEN /\ Fail(subquery.err)
            /\ UNCHANGED calls
       ELSE /\ calls' = Append(calls, Call("analyze_statement", idx,
                                           <<rpn[idx].subquery>>))
            /\ resolving' = (idx :> Resolving("", "", <<>>)) @@ resolving
            /\ UNCHANGED <<pc, result>>
    /\ UNCHANGED <<tables, current_database, rpn, analyzed_tables>>
    /\ UNCHANGED <<frames, value_vars>>

\* analyze_subquery from the return of subquery.analyze
SubqueryReturn(i) ==
    /\ pc = "loop"
    /\ i \in DOMAIN resolving
    /\ rpn[i].kind = "Derived"
    /\ LET analyzed == analyze_statement(rpn[i].subquery) IN
       IF ~analyzed.ok
       THEN /\ Fail(analyzed.err)
            /\ UNCHANGED analyzed_tables
       ELSE IF analyzed.variant = "SelectQuery"
            THEN /\ Push(i, from_schema(subquery_schema(analyzed),
                                        subquery_name_prefix(rpn[i])))
                 /\ UNCHANGED <<pc, result>>
            ELSE /\ Fail(Error("LogicalError",
                     "Logical error, subquery analyzed data must be SelectQuery, it's a bug."))
                 /\ UNCHANGED analyzed_tables
    /\ UNCHANGED <<tables, current_database, rpn, idx, calls>>
    /\ UNCHANGED <<frames, value_vars>>

\* Finish with the check `analyzed_tables.is_empty()` in place of
\* `analyzed_tables.len() != 1`
Finish_takes_first ==
    /\ pc = "loop"
    /\ Awaited
    /\ idx > Len(rpn)
    /\ IF Len(analyzed_tables) = 0
       THEN /\ Fail(Error("LogicalError",
                          "Logical error: this is relation rpn bug."))
            /\ UNCHANGED analyzed_tables
       ELSE /\ result' = Some(Ok(NewState(analyzed_tables[1])))
            /\ analyzed_tables' = Tail(analyzed_tables)
            /\ pc' = "done"
            /\ UNCHANGED resolving
    /\ UNCHANGED <<tables, current_database, rpn, idx, calls>>
    /\ UNCHANGED <<frames, value_vars>>

\* the end of the for loop: the length check and Ok(AnalyzeQueryState {..})
Finish ==
    /\ pc = "loop"
    /\ Awaited
    /\ idx > Len(rpn)
    /\ IF Len(analyzed_tables) /= 1
       THEN /\ Fail(Error("LogicalError",
                          "Logical error: this is relation rpn bug."))
            /\ UNCHANGED analyzed_tables
       ELSE /\ result' = Some(Ok(NewState(analyzed_tables[1])))
            /\ analyzed_tables' = Tail(analyzed_tables)
            /\ pc' = "done"
            /\ UNCHANGED resolving
    /\ UNCHANGED <<tables, current_database, rpn, idx, calls>>
    /\ UNCHANGED <<frames, value_vars>>

Next ==
    \/ Build
    \/ LoopJoin
    \/ AnalyzeTable
    \/ \E i \in DOMAIN resolving : GetTableReturn(i)
    \/ AnalyzeTableFunction
    \/ \E i \in DOMAIN resolving : AnalyzeArg(i)
    \/ \E i \in DOMAIN resolving : AnalyzeArgReturn(i)
    \/ \E i \in DOMAIN resolving : GetTableFunction(i)
    \/ AnalyzeSubquery
    \/ \E i \in DOMAIN resolving : SubqueryReturn(i)
    \/ Finish

Spec == Init /\ [][Next]_vars

(***************************************************************************)
(* The for loop and the length check of create on any Vec<RelationRPNItem>,*)
(* the sequences build never returns included: the loop is what decides    *)
(* what happens to a sequence that does not leave one schema.              *)
(***************************************************************************)
\* the items of an RPN handed to the loop
MaxRpnLen == 2

\* the operands build makes of the table factors it accepts, and the joins
RpnItems ==
    { visit_table_factor(<<>>, f).rpn[1] :
          f \in {l \in Leaves : visit_table_factor(<<>>, l).ok} }
    \cup { JoinRPNItem(o) : o \in JoinOperators }

InitLoop ==
    /\ tables = <<>>
    /\ current_database \in Databases
    /\ pc = "loop"
    /\ \E n \in 0..MaxRpnLen : rpn \in [1..n -> RpnItems]
    /\ idx = 1
    /\ resolving = <<>>
    /\ analyzed_tables = <<>>
    /\ calls = <<>>
    /\ result = None
    /\ frames = <<>>
    /\ column = <<>>
    /\ series = None
    /\ deserializer = None

NextLoop ==
    \/ LoopJoin
    \/ AnalyzeTable
    \/ \E i \in DOMAIN resolving : GetTableReturn(i)
    \/ AnalyzeTableFunction
    \/ \E i \in DOMAIN resolving : AnalyzeArg(i)
    \/ \E i \in DOMAIN resolving : AnalyzeArgReturn(i)
    \/ \E i \in DOMAIN resolving : GetTableFunction(i)
    \/ AnalyzeSubquery
    \/ \E i \in DOMAIN resolving : SubqueryReturn(i)
    \/ Finish

SpecLoop == InitLoop /\ [][NextLoop]_vars

(***************************************************************************)
(* Derived subqueries analysed by create itself.  subquery.analyze runs    *)
(* the analysis pipeline of the nested statement, whose first stage is     *)
(* AnalyzeQueryState::create on the nested FROM clause; the stages after   *)
(* it make the finalize schema of the select list.  The create of the      *)
(* enclosing statement is suspended on its await meanwhile.                *)
(***************************************************************************)
\* the depth to which the derived subqueries of a clause nest
MaxNesting == 3

\* the nested statements by what their innermost FROM clause is, each name
\* followed by the statement that selects from it:
\*   q_nest_1 is SELECT x FROM b,      q_nest_k is SELECT x FROM (q_nest_k-1) AS t
\*   q_miss_1 is SELECT x FROM zz,     zz no table of the catalog
\*   q_join_1 is SELECT x FROM a JOIN b
NestNames ==
    [ok |-> <<"q_nest_1", "q_nest_2", "q_nest_3", "q_nest_4", "q_nest_5">>,
     missing |-> <<"q_miss_1", "q_miss_2", "q_miss_3", "q_miss_4", "q_miss_5">>,
     join |-> <<"q_join_1", "q_join_2", "q_join_3", "q_join_4", "q_join_5">>]

ChainOf(q) ==
    CHOOSE c \in DOMAIN NestNames :
        \E k \in 1..Len(NestNames[c]) : NestNames[c][k] = q

LevelOf(q) ==
    CHOOSE k \in 1..Len(NestNames[ChainOf(q)]) : NestNames[ChainOf(q)][k] = q

\* the FROM clause of the innermost statement of a chain
BaseFrom ==
    [ok |-> <<[relation |-> TableF(<<"b">>, <<>>, None, <<>>), joins |-> <<>>]>>,
     missing |->
         <<[relation |-> TableF(<<"zz">>, <<>>, None, <<>>), joins |-> <<>>]>>,
     join |->
         <<[relation |-> TableF(<<"a">>, <<>>, None, <<>>),
            joins |-> <<[relation |-> TableF(<<"b">>, <<>>, None, <<>>),
                         join_operator |-> "Inner"]>>]>>]

\* the FROM clause of the nested statement q
NestedFrom(q) ==
    IF LevelOf(q) = 1
    THEN BaseFrom[ChainOf(q)]
    ELSE <<[relation |->
                DerivedF(FALSE, NestNames[ChainOf(q)][LevelOf(q) - 1],
                         Some("t")),
            joins |-> <<>>]>>

\* the select list of the nested statement q
NestedSelect(q) == <<"x">>

\* the stages of the nested pipeline after create: the AnalyzedResult of a
\* statement whose create returned `created`; a selected column names a
\* column of the joined schema
analyze_after_create(q, created) ==
    IF ~created.ok
    THEN [ok |-> FALSE, variant |-> "", joined_schema |-> <<>>,
          finalize_schema |-> <<>>, err |-> created.err]
    ELSE LET joined == created.state[1].joined_schema
             names == {joined[j].name : j \in 1..Len(joined)}
         IN  IF \A n \in 1..Len(NestedSelect(q)) : NestedSelect(q)[n] \in names
             THEN [ok |-> TRUE, variant |-> "SelectQuery",
                   joined_schema |-> joined,
                   finalize_schema |-> NestedSelect(q), err |-> Error("", "")]
             ELSE [ok |-> FALSE, variant |-> "", joined_schema |-> <<>>,
                   finalize_schema |-> <<>>,
                   err |-> Error("UnknownColumn", "Unknown column")]

\* the create of an enclosing statement, suspended on `schema.await`
Frame ==
    [tables |-> tables, rpn |-> rpn, idx |-> idx, resolving |-> resolving,
     analyzed_tables |-> analyzed_tables]

\* EnterSubquery refusing statements nested more than two deep
EnterSubquery_capped(i) ==
    /\ pc = "loop"
    /\ i \in DOMAIN resolving
    /\ rpn[i].kind = "Derived"
    /\ IF Len(frames) >= 2
       THEN /\ Fail(Error("SyntaxException", "Query is too deeply nested"))
            /\ UNCHANGED <<frames, tables, rpn, idx, analyzed_tables, calls>>
       ELSE /\ frames' = Append(frames, Frame)
            /\ calls' = Append(calls, Call("create", i, <<rpn[i].subquery>>))
            /\ tables' = NestedFrom(rpn[i].subquery)
            /\ pc' = "build"
            /\ rpn' = <<>>
            /\ idx' = 1
            /\ resolving' = <<>>
            /\ analyzed_tables' = <<>>
            /\ result' = None
    /\ UNCHANGED <<current_database, value_vars>>

\* subquery.analyze(ctx.clone()) starts the create of the nested statement
EnterSubquery(i) ==
    /\ pc = "loop"
    /\ i \in DOMAIN resolving
    /\ rpn[i].kind = "Derived"
    /\ frames' = Append(frames, Frame)
    /\ calls' = Append(calls, Call("create", i, <<rpn[i].subquery>>))
    /\ tables' = NestedFrom(rpn[i].subquery)
    /\ pc' = "build"
    /\ rpn' = <<>>
    /\ idx' = 1
    /\ resolving' = <<>>
    /\ analyzed_tables' = <<>>
    /\ result' = None
    /\ UNCHANGED <<current_database, value_vars>>

\* subquery.analyze(..).await? returns to analyze_subquery of the enclosing
\* statement, which goes on as from line 86
ExitSubquery ==
    /\ pc = "done"
    /\ frames /= <<>>
    /\ LET outer == frames[Len(frames)]
           i == CHOOSE j \in DOMAIN outer.resolving : TRUE
           analyzed == analyze_after_create(outer.rpn[i].subquery, result[1])
       IN
       /\ frames' = SubSeq(frames, 1, Len(frames) - 1)
       /\ tables' = outer.tables
       /\ rpn' = outer.rpn
       /\ idx' = outer.idx
       /\ resolving' = <<>>
       /\ IF ~analyzed.ok
          THEN /\ result' = Some(Err(analyzed.err))
               /\ pc' = "done"
               /\ analyzed_tables' = outer.analyzed_tables
          ELSE /\ analyzed_tables' =
                      Append(outer.analyzed_tables,
                             from_schema(subquery_schema(analyzed),
                                         subquery_name_prefix(outer.rpn[i])))
               /\ result' = None
               /\ pc' = "loop"
    /\ UNCHANGED <<current_database, calls, value_vars>>

\* the table factors of the clauses with nested statements
NestedLeaves ==
    { DerivedF(FALSE, NestNames[c][k], alias) :
          c \in DOMAIN NestNames, k \in 1..MaxNesting,
          alias \in {None, Some("s")} }
    \cup { TableF(<<"a">>, <<>>, None, <<>>) }

InitNested ==
    /\ \E n \in 1..2 : \E ls \in [1..n -> NestedLeaves] :
          tables = [j \in 1..n |-> [relation |-> ls[j], joins |-> <<>>]]
    /\ current_database = "default"
    /\ pc = "build"
    /\ rpn = <<>>
    /\ idx = 1
    /\ resolving = <<>>
    /\ analyzed_tables = <<>>
    /\ calls = <<>>
    /\ result = None
    /\ frames = <<>>
    /\ column = <<>>
    /\ series = None
    /\ deserializer = None

\* create has returned to the caller of the outermost statement
Returned == pc = "done" /\ frames = <<>>

NextNested ==
    \/ Build
    \/ LoopJoin
    \/ AnalyzeTable
    \/ \E i \in DOMAIN resolving : GetTableReturn(i)
    \/ AnalyzeSubquery
    \/ \E i \in DOMAIN resolving : EnterSubquery(i)
    \/ ExitSubquery
    \/ Finish

SpecNested == InitNested /\ [][NextNested]_vars

\* the collaborators always answer and the task that runs create is polled
\* to completion
SpecNestedFair == SpecNested /\ WF_vars(NextNested)

(***************************************************************************)
(* ToYYYYMMFunction, as its tests drive it: eval takes one column of      *)
(* Date16, Date32 or DateTime32 values and returns a column.  Date16 and   *)
(* Date32 count days from 1970-01-01, DateTime32 seconds from              *)
(* 1970-01-01 00:00:00 UTC.                                                *)
(***************************************************************************)
\* the rows of a column
MaxRows == 4

DateTypes == {"Date16", "Date32", "DateTime32"}

\* day offsets: the first days of 1970, 1970-02-01, 1970-03-01, 1972-02-29,
\* 1999-12-31, and the last day a Date16 holds, 2149-06-06
DayValues == {0, 1, 2, 3, 31, 59, 789, 10956, 65535}

\* timestamps: the first second, the last second of 1970-01-01, 1970-02-01,
\* 2000-02-29 23:59:59, and 2038-01-19 03:14:07
TimeValues == {0, 1, 86399, 2678400, 951868799, 2147483647}

ValuesOf(data_type) ==
    IF data_type = "DateTime32" THEN TimeValues ELSE DayValues

\* DataColumnWithField: the values of a column and the type of its field
Column(data_type, values) == [data_type |-> data_type, values |-> values]

\* the day offset of a value of a column of the given type
DayOf(data_type, v) == IF data_type = "DateTime32" THEN v \div 86400 ELSE v

\* the year and the month of a day offset in the proleptic Gregorian
\* calendar
CivilFromDays(d) ==
    LET z == d + 719468
        era == z \div 146097
        doe == z - era * 146097
        yoe == (doe - doe \div 1460 + doe \div 36524 - doe \div 146096)
                   \div 365
        doy == doe - (365 * yoe + yoe \div 4 - yoe \div 100)
        mp == (5 * doy + 2) \div 153
        m == IF mp < 10 THEN mp + 3 ELSE mp - 9
    IN  [year |-> yoe + era * 400 + (IF m <= 2 THEN 1 ELSE 0), month |-> m]

\* ToYYYYMM counting the months from zero
ToYYYYMM_month_from_zero(data_type, v) ==
    LET date == CivilFromDays(DayOf(data_type, v))
    IN  date.year * 100 + date.month - 1

\* the number the function makes of one value: year * 100 + month, which
\* is below 2^32 for every year a column value reaches
ToYYYYMM(data_type, v) ==
    LET date == CivilFromDays(DayOf(data_type, v))
    IN  date.year * 100 + date.month

\* ToYYYYMMFunction::eval(&columns, input_rows)
ToYYYYMMFunction_eval(col) ==
    Column("UInt32",
           [i \in 1..Len(col.values) |-> ToYYYYMM(col.data_type, col.values[i])])

InitDates ==
    /\ \E data_type \in DateTypes : \E n \in 0..MaxRows :
          \E values \in [1..n -> ValuesOf(data_type)] :
              column = Column(data_type, values)
    /\ series = None
    /\ deserializer = None
    /\ tables = <<>>
    /\ current_database = "default"
    /\ pc = "eval"
    /\ rpn = <<>>
    /\ idx = 1
    /\ resolving = <<>>
    /\ analyzed_tables = <<>>
    /\ calls = <<>>
    /\ result = None
    /\ frames = <<>>

\* let result = col.eval(&columns, block.num_rows())?;
Eval ==
    /\ pc = "eval"
    /\ series = None
    /\ series' = Some(ToYYYYMMFunction_eval(column))
    /\ UNCHANGED <<tables, current_database, pc, rpn, idx, resolving,
                   analyzed_tables, calls, result, frames, column,
                   deserializer>>

NextDates == Eval

SpecDates == InitDates /\ [][NextDates]_vars

(***************************************************************************)
(* DateTimeDeserializer<T>, T = u32.  The builder is the sequence of the  *)
(* elements appended so far, a value Some(v) or the null None.  A u32 is   *)
(* the record of its two 16-bit halves, hi * 65536 + lo.  A reader is a    *)
(* sequence of bytes; a text is a sequence of characters, "<U+hhhh>" for   *)
(* the character of that code point outside printable ASCII and "<ff>" for *)
(* a byte that is no UTF-8.                                                *)
(***************************************************************************)
\* the calls made on one deserializer
MaxCalls == 2

\* std::mem::size_of::<u32>()
ScalarSize == 4

\* a u32 by its halves
U32(hi, lo) == [hi |-> hi, lo |-> lo]

\* the u32 of a number below 2^31
ToU32(v) == U32(v \div 65536, v % 65536)

\* the bytes of a scalar, little endian
Marshal(v) == <<v.lo % 256, v.lo \div 256, v.hi % 256, v.hi \div 256>>

\* reader.read_scalar(): the scalar of the first bytes of the reader, or an
\* error when the reader is too short
read_scalar(reader) ==
    IF Len(reader) < ScalarSize
    THEN [ok |-> FALSE, value |-> U32(0, 0),
          err |-> Error("UnexpectedEof", "failed to fill whole buffer")]
    ELSE [ok |-> TRUE,
          value |-> U32(reader[3] + 256 * reader[4],
                        reader[1] + 256 * reader[2]),
          err |-> Error("", "")]

UpperCase == <<"A", "B", "C", "D", "E", "F", "G", "H", "I", "J", "K", "L", "M", "N",
              "O", "P", "Q", "R", "S", "T", "U", "V", "W", "X", "Y", "Z">>

LowerCase == <<"a", "b", "c", "d", "e", "f", "g", "h", "i", "j", "k", "l", "m", "n",
              "o", "p", "q", "r", "s", "t", "u", "v", "w", "x", "y", "z">>

\* u8::to_ascii_lowercase
to_ascii_lowercase(c) ==
    IF \E k \in 1..Len(UpperCase) : UpperCase[k] = c
    THEN LowerCase[CHOOSE k \in 1..Len(UpperCase) : UpperCase[k] = c]
    ELSE c

\* <[u8]>::eq_ignore_ascii_case
eq_ignore_ascii_case(a, b) ==
    /\ Len(a) = Len(b)
    /\ \A i \in 1..Len(a) : to_ascii_lowercase(a[i]) = to_ascii_lowercase(b[i])

Digits == <<"0", "1", "2", "3", "4", "5", "6", "7", "8", "9">>

IsDigit(c) == \E d \in 1..Len(Digits) : Digits[d] = c

DigitOf(c) == (CHOOSE d \in 1..Len(Digits) : Digits[d] = c) - 1

RECURSIVE ParseU32(_)

\* the u32 a sequence of digits writes, or an overflow
ParseU32(digits) ==
    IF digits = <<>>
    THEN [ok |-> TRUE, value |-> U32(0, 0)]
    ELSE LET front == ParseU32(SubSeq(digits, 1, Len(digits) - 1))
             lo == front.value.lo * 10 + DigitOf(digits[Len(digits)])
             hi == front.value.hi * 10 + lo \div 65536
         IN  IF ~front.ok \/ hi > 65535
             THEN [ok |-> FALSE, value |-> U32(0, 0)]
             ELSE [ok |-> TRUE, value |-> U32(hi, lo % 65536)]

\* lexical_core::parse::<u32>: the whole text is an optional plus sign and
\* one digit at least, and the number fits a u32
lexical_parse(text) ==
    LET digits == IF text /= <<>> /\ text[1] = "+" THEN Tail(text) ELSE text
    IN  IF digits /= <<>> /\ \A i \in 1..Len(digits) : IsDigit(digits[i])
        THEN ParseU32(digits)
        ELSE [ok |-> FALSE, value |-> U32(0, 0)]

\* std::str::from_utf8
from_utf8(text) == [ok |-> \A i \in 1..Len(text) : text[i] /= "<ff>"]

\* the days from 1970-01-01 to the day d of month m of year y
DaysFromCivil(y, m, d) ==
    LET y2 == IF m <= 2 THEN y - 1 ELSE y
        era == y2 \div 400
        yoe == y2 - era * 400
        mp == IF m > 2 THEN m - 3 ELSE m + 9
        doy == (153 * mp + 2) \div 5 + d - 1
        doe == yoe * 365 + yoe \div 4 - yoe \div 100 + doy
    IN  era * 146097 + doe - 719468

\* the years of a NaiveDate
MinYear == -262143

MaxYear == 262142

\* char::is_whitespace: the characters of the Unicode property White_Space
Whitespace ==
    {"\t", "\n", "<U+000B>", "\f", "\r", " ", "<U+0085>", "<U+00A0>",
     "<U+1680>", "<U+2000>", "<U+2001>", "<U+2002>", "<U+2003>", "<U+2004>",
     "<U+2005>", "<U+2006>", "<U+2007>", "<U+2008>", "<U+2009>", "<U+200A>",
     "<U+2028>", "<U+2029>", "<U+202F>", "<U+205F>", "<U+3000>"}

\* str::trim_left: the first place from pos on that holds no whitespace
SkipSpace(text, pos) ==
    CHOOSE q \in pos..(Len(text) + 1) :
        /\ \A j \in pos..(q - 1) : text[j] \in Whitespace
        /\ q = Len(text) + 1 \/ text[q] \notin Whitespace

\* the digits at the places from pos on, max of them at most
DigitRun(text, pos, max) ==
    CHOOSE k \in 0..max :
        /\ \A j \in pos..(pos + k - 1) : j <= Len(text) /\ IsDigit(text[j])
        /\ k = max \/ pos + k > Len(text) \/ ~IsDigit(text[pos + k])

RECURSIVE BoundedNumberOf(_)

\* the number a sequence of digits writes, or MaxYear + 2 when it is more
BoundedNumberOf(digits) ==
    IF digits = <<>>
    THEN 0
    ELSE LET v == 10 * BoundedNumberOf(SubSeq(digits, 1, Len(digits) - 1))
                      + DigitOf(digits[Len(digits)])
         IN  IF v > MaxYear + 1 THEN MaxYear + 2 ELSE v

\* scan::number(s, 1, max): one to max digits from pos on
Number(text, pos, max) ==
    LET k == DigitRun(text, pos, max) IN
    [ok |-> k >= 1,
     value |-> BoundedNumberOf(SubSeq(text, pos, pos + k - 1)),
     next |-> pos + k]

\* Item::Numeric: spaces, then a number of `width` digits at most; a signed
\* field takes a sign and then any number of digits
Numeric(text, pos, width, signed) ==
    LET p == SkipSpace(text, pos)
        sign == IF signed /\ p <= Len(text) /\ text[p] \in {"-", "+"}
                THEN text[p]
                ELSE ""
        n == IF sign = ""
             THEN Number(text, p, width)
             ELSE Number(text, p + 1, Len(text))
    IN  [ok |-> n.ok,
         value |-> IF sign = "-" THEN 0 - n.value ELSE n.value,
         next |-> n.next]

\* Item::Literal: the character c at pos
Literal(text, pos, c) ==
    [ok |-> pos <= Len(text) /\ text[pos] = c, next |-> pos + 1]

\* Fixed::Nanosecond of %.f: nothing, or a point and one digit at least
Nanosecond(text, pos) ==
    IF pos <= Len(text) /\ text[pos] = "."
    THEN LET k == DigitRun(text, pos + 1, Len(text)) IN
         [ok |-> k >= 1, next |-> pos + 1 + k]
    ELSE [ok |-> TRUE, next |-> pos]

\* (days * 86400 + seconds) as u32: the wrapping cast of an i64
TimestampAsU32(days, seconds) ==
    LET dh == days \div 65536
        dl == days % 65536
        low == dl * 20864 + seconds
    IN  U32((dh * 20864 + dl + low \div 65536) % 65536, low % 65536)

\* from_local_datetime: the time in UTC, `seconds` from the start of the
\* day `days`, is a NaiveDateTime
InRange(days, seconds) ==
    /\ days = DaysFromCivil(MinYear, 1, 1) => seconds >= 0
    /\ days = DaysFromCivil(MaxYear, 12, 31) => seconds < 86400

\* tz.datetime_from_str(v, "%Y-%m-%d %H:%M:%S%.f") and timestamp().as_();
\* offset is the seconds the zone is ahead of UTC
datetime_from_str(text, offset) ==
    LET year == Numeric(text, 1, 4, TRUE)
        dash1 == Literal(text, year.next, "-")
        month == Numeric(text, dash1.next, 2, FALSE)
        dash2 == Literal(text, month.next, "-")
        day == Numeric(text, dash2.next, 2, FALSE)
        hour == Numeric(text, SkipSpace(text, day.next), 2, FALSE)
        colon1 == Literal(text, hour.next, ":")
        minute == Numeric(text, colon1.next, 2, FALSE)
        colon2 == Literal(text, minute.next, ":")
        second == Numeric(text, colon2.next, 2, FALSE)
        nano == Nanosecond(text, second.next)
    IN
    IF /\ year.ok /\ dash1.ok /\ month.ok /\ dash2.ok /\ day.ok
       /\ hour.ok /\ colon1.ok /\ minute.ok /\ colon2.ok /\ second.ok
       /\ nano.ok /\ nano.next = Len(text) + 1
       /\ year.value \in MinYear..MaxYear
       /\ month.value \in 1..12 /\ day.value \in 1..31
       /\ CivilFromDays(DaysFromCivil(year.value, month.value, day.value))
              = [year |-> year.value, month |-> month.value]
       /\ hour.value \in 0..23 /\ minute.value \in 0..59
       /\ second.value \in 0..60
       /\ InRange(DaysFromCivil(year.value, month.value, day.value),
                  hour.value * 3600 + minute.value * 60
                      + (IF second.value = 60 THEN 59 ELSE second.value)
                      - offset)
    THEN [ok |-> TRUE,
          timestamp |->
              TimestampAsU32(
                  DaysFromCivil(year.value, month.value, day.value),
                  hour.value * 3600 + minute.value * 60
                      + (IF second.value = 60 THEN 59 ELSE second.value)
                      - offset)]
    ELSE [ok |-> FALSE, timestamp |-> U32(0, 0)]

\* the builder after the rows of de_batch before row `row` and what the
\* loop does from that row on: it ends, the slice panics, read_scalar
\* fails, or the value is appended and the loop goes on
RECURSIVE de_batch_from(_, _, _, _, _)

de_batch_from(builder, reader, step, rows, row) ==
    IF row >= rows
    THEN [outcome |-> "Ok", builder |-> builder, err |-> Error("", "")]
    ELSE IF step * row > Len(reader)
    THEN [outcome |-> "panic", builder |-> builder, err |-> Error("", "")]
    ELSE LET scalar == read_scalar(SubSeq(reader, step * row + 1, Len(reader)))
         IN  IF ~scalar.ok
             THEN [outcome |-> "Err", builder |-> builder, err |-> scalar.err]
             ELSE de_batch_from(Append(builder, Some(scalar.value)),
                                reader, step, rows, row + 1)

\* de_batch that appends the rows only when every row was read
de_batch_all_or_nothing(builder, reader, step, rows) ==
    LET done == de_batch_from(builder, reader, step, rows, 0) IN
    IF done.outcome = "Ok"
    THEN done
    ELSE [outcome |-> done.outcome, builder |-> builder, err |-> done.err]

\* fn de_batch(&mut self, reader, step, rows) -> Result<()>
de_batch(builder, reader, step, rows) ==
    de_batch_from(builder, reader, step, rows, 0)

\* fn de(&mut self, reader) -> Result<()>
de(builder, reader) ==
    LET scalar == read_scalar(reader) IN
    IF ~scalar.ok
    THEN [outcome |-> "Err", builder |-> builder, err |-> scalar.err]
    ELSE [outcome |-> "Ok", builder |-> Append(builder, Some(scalar.value)),
          err |-> Error("", "")]

\* fn de_text(&mut self, reader) -> Result<()>
de_text(builder, tz, text) ==
    IF eq_ignore_ascii_case(text, <<"n", "u", "l", "l">>)
    THEN [outcome |-> "Ok", builder |-> Append(builder, None),
          err |-> Error("", "")]
    ELSE IF lexical_parse(text).ok
    THEN [outcome |-> "Ok",
          builder |-> Append(builder, Some(lexical_parse(text).value)),
          err |-> Error("", "")]
    ELSE IF ~from_utf8(text).ok
    THEN [outcome |-> "Err", builder |-> builder,
          err |-> Error("BadBytes", "Cannot convert value to utf8")]
    ELSE IF ~datetime_from_str(text, tz).ok
    THEN [outcome |-> "Err", builder |-> builder,
          err |-> Error("BadBytes", "Cannot parse value to DateTime type")]
    ELSE [outcome |-> "Ok",
          builder |-> Append(builder,
                             Some(datetime_from_str(text, tz).timestamp)),
          err |-> Error("", "")]

\* fn de_null(&mut self)
de_null(builder) ==
    [outcome |-> "Ok", builder |-> Append(builder, None), err |-> Error("", "")]

\* PrimitiveArrayBuilder::finish(&mut self): the array of the elements,
\* which the builder gives away
finish(builder) == [array |-> builder, builder |-> <<>>]

\* fn finish_to_series(&mut self) -> Series
finish_to_series(builder) ==
    [series |-> finish(builder).array, builder |-> finish(builder).builder]

\* the zones of a deserializer, by the seconds they are ahead of UTC: UTC
\* and Etc/GMT-8
Zones == {0, 28800}

\* the scalars the readers hold
Scalars == {U32(0, 0), U32(0, 1), ToU32(86400), U32(65535, 65535)}

\* the readers of de: a scalar, a scalar cut short, nothing, two scalars
Readers ==
    { Marshal(v) : v \in Scalars }
    \cup { <<>>, SubSeq(Marshal(U32(0, 1)), 1, 3),
           Marshal(U32(0, 1)) \o Marshal(U32(0, 0)) }

\* the readers, steps and rows of de_batch: whole rows, a last row cut
\* short, a row that starts past the end, rows that overlap, no row
Batches ==
    { [reader |-> Marshal(U32(0, 0)) \o Marshal(U32(0, 1))
                      \o Marshal(ToU32(86400)),
       step |-> 4, rows |-> 3],
      [reader |-> Marshal(U32(0, 0)) \o Marshal(U32(0, 1)),
       step |-> 4, rows |-> 1],
      [reader |-> Marshal(U32(0, 0)) \o Marshal(U32(0, 1)) \o <<128, 81>>,
       step |-> 4, rows |-> 3],
      [reader |-> Marshal(U32(0, 1)), step |-> 4, rows |-> 2],
      [reader |-> Marshal(U32(0, 0)) \o Marshal(U32(0, 1)),
       step |-> 6, rows |-> 2],
      [reader |-> Marshal(U32(0, 0)) \o Marshal(U32(0, 1)),
       step |-> 16, rows |-> 2],
      [reader |-> Marshal(ToU32(86400)) \o <<1>>, step |-> 1, rows |-> 2],
      [reader |-> <<>>, step |-> 4, rows |-> 0],
      [reader |-> <<>>, step |-> 4, rows |-> 1] }

\* the texts of de_text
Texts ==
    { <<"n", "u", "l", "l">>,
      <<"N", "U", "L", "L">>,
      <<"N", "u", "L", "l">>,
      <<"n", "u", "l">>,
      <<"n", "u", "l", "l", " ">>,
      <<>>,
      <<"0">>,
      <<"8", "6", "4", "0", "0">>,
      <<"+", "1">>,
      <<"-", "1">>,
      <<"1", "2", "a">>,
      <<"4", "2", "9", "4", "9", "6", "7", "2", "9", "5">>,
      <<"4", "2", "9", "4", "9", "6", "7", "2", "9", "6">>,
      <<"1", "9", "7", "0", "-", "0", "1", "-", "0", "2",
        " ", "0", "0", ":", "0", "0", ":", "0", "1">>,
      <<"2", "0", "0", "0", "-", "0", "2", "-", "2", "9",
        " ", "2", "3", ":", "5", "9", ":", "5", "9">>,
      <<"1", "9", "7", "0", "-", "0", "1", "-", "0", "1",
        " ", "0", "0", ":", "0", "0", ":", "0", "0">>,
      <<"1", "9", "6", "9", "-", "1", "2", "-", "3", "1",
        " ", "2", "3", ":", "5", "9", ":", "5", "9">>,
      <<"1", "9", "7", "0", "-", "0", "1", "-", "0", "1", " ",
        "0", "0", ":", "0", "0", ":", "0", "0", ".", "5">>,
      <<"1", "9", "7", "0", "-", "1", "-", "2",
        " ", "3", ":", "4", ":", "5">>,
      <<"1", "9", "7", "0", "-", "0", "1", "-", "0", "1",
        " ", "0", "0", ":", "0", "0", ":", "6", "0">>,
      <<" ", "1", "9", "7", "0", "-", "0", "1", "-", "0", "2",
        " ", " ", "0", "0", ":", "0", "0", ":", "0", "0">>,
      <<"1", "9", "7", "0", "-", "0", "2", "-", "3", "0",
        " ", "0", "0", ":", "0", "0", ":", "0", "0">>,
      <<"1", "9", "7", "0", "-", "0", "1", "-", "0", "2",
        " ", "2", "4", ":", "0", "0", ":", "0", "0">>,
      <<"1", "9", "7", "0", "-", "0", "1", "-", "0", "2">>,
      <<"1", "9", "7", "0", "-", "0", "1", "-", "0", "2", " ",
        "0", "0", ":", "0", "0", ":", "0", "0", " ">>,
      <<"1", "9", "7", "0", "-", "0", "1", "-", "0", "1", "\t",
        "0", "0", ":", "0", "0", ":", "0", "0">>,
      <<"1", "9", "7", "0", "-", "0", "1", "-", "0", "2", "<U+00A0>",
        "0", "0", ":", "0", "0", ":", "0", "0">>,
      <<"<ff>">> }

\* DateTimeDeserializer { builder, tz }
Deserializer(builder, tz) == [builder |-> builder, tz |-> tz]

\* a call on the deserializer, how it returned and what it appended to the
\* `before` elements of the builder
Called(fn, input, rows, done) ==
    [fn |-> fn, input |-> input, rows |-> rows, outcome |-> done.outcome,
     before |-> Len(deserializer[1].builder),
     appended |-> SubSeq(done.builder, Len(deserializer[1].builder) + 1,
                         Len(done.builder))]

InitDeserializer ==
    /\ \E tz \in Zones : deserializer = Some(Deserializer(<<>>, tz))
    /\ column = <<>>
    /\ series = None
    /\ tables = <<>>
    /\ current_database = "default"
    /\ pc = "de"
    /\ rpn = <<>>
    /\ idx = 1
    /\ resolving = <<>>
    /\ analyzed_tables = <<>>
    /\ calls = <<>>
    /\ result = None
    /\ frames = <<>>

\* a method of the deserializer returns `done`; a panic ends the run
Return(fn, input, rows, done) ==
    /\ pc = "de"
    /\ Len(calls) < MaxCalls
    /\ deserializer' = Some(Deserializer(done.builder, deserializer[1].tz))
    /\ calls' = Append(calls, Called(fn, input, rows, done))
    /\ pc' = IF done.outcome = "panic" THEN "panicked" ELSE "de"
    /\ UNCHANGED <<tables, current_database, rpn, idx, resolving,
                   analyzed_tables, result, frames, column, series>>

De ==
    \E reader \in Readers :
        Return("de", reader, 1, de(deserializer[1].builder, reader))

DeBatch ==
    \E b \in Batches :
        Return("de_batch", b, b.rows,
               de_batch(deserializer[1].builder, b.reader, b.step, b.rows))

DeText ==
    \E text \in Texts :
        Return("de_text", text, 1,
               de_text(deserializer[1].builder, deserializer[1].tz, text))

DeNull == Return("de_null", <<>>, 1, de_null(deserializer[1].builder))

FinishToSeries ==
    /\ pc = "de"
    /\ Len(calls) < MaxCalls
    /\ LET finished == finish_to_series(deserializer[1].builder) IN
       /\ series' = Some(finished.series)
       /\ deserializer' =
              Some(Deserializer(finished.builder, deserializer[1].tz))
       /\ calls' = Append(calls,
              [fn |-> "finish_to_series", input |-> <<>>, rows |-> 0,
               outcome |-> "Ok", before |-> Len(deserializer[1].builder),
               appended |-> <<>>])
    /\ UNCHANGED <<tables, current_database, pc, rpn, idx, resolving,
                   analyzed_tables, result, frames, column>>

NextDeserializer ==
    \/ De
    \/ DeBatch
    \/ DeText
    \/ DeNull
    \/ FinishToSeries

SpecDeserializer == InitDeserializer /\ [][NextDeserializer]_vars

(***************************************************************************)
(* Measures of a FROM clause and of an RPN, used to state the properties.  *)
(***************************************************************************)
RECURSIVE StackRun(_, _, _)

\* the RPN run as a stack program from item i with `depth` values on the
\* stack: the final number of values, or -1 when a Join finds fewer than two
StackRun(seq, i, depth) ==
    IF i > Len(seq)
    THEN depth
    ELSE IF IsOperand(seq[i])
         THEN StackRun(seq, i + 1, depth + 1)
         ELSE IF depth < 2 THEN -1 ELSE StackRun(seq, i + 1, depth - 1)

NumOperands(seq) == Cardinality({i \in 1..Len(seq) : IsOperand(seq[i])})

NumJoinItems(seq) == Cardinality({i \in 1..Len(seq) : seq[i].kind = "Join"})

RECURSIVE JoinsInFactor(_), JoinsInTWJ(_), JoinsInList(_, _)

\* the explicit join clauses inside a table factor
JoinsInFactor(f) ==
    IF f.kind = "NestedJoin" THEN JoinsInTWJ(f.nested[1]) ELSE 0

JoinsInList(joins, i) ==
    IF i > Len(joins)
    THEN 0
    ELSE 1 + JoinsInFactor(joins[i].relation) + JoinsInList(joins, i + 1)

JoinsInTWJ(t) == JoinsInFactor(t.relation) + JoinsInList(t.joins, 1)

RECURSIVE JoinsInFrom(_, _)

JoinsInFrom(exprs, i) ==
    IF i > Len(exprs)
    THEN 0
    ELSE JoinsInTWJ(exprs[i]) + JoinsInFrom(exprs, i + 1)

\* m: the explicit join clauses of the clause, those of nested groups included
NumJoinClauses(exprs) == JoinsInFrom(exprs, 1)

HasNestedJoin(exprs) ==
    \E i \in 1..Len(exprs) :
        \/ exprs[i].relation.kind = "NestedJoin"
        \/ \E j \in 1..Len(exprs[i].joins) :
               exprs[i].joins[j].relation.kind = "NestedJoin"

\* the number of RPN items of a factor: an operand per table factor and an
\* operator per explicit join
SizeFactor(f) == 2 * JoinsInFactor(f) + 1

SizeTWJ(t) == 2 * JoinsInTWJ(t) + 1

\* the operand a table factor that is no join group stands for
OperandOf(f) ==
    CASE f.kind = "Table" /\ IsEmpty(f.args) -> TableRPNItem(f.name, f.alias)
      [] f.kind = "Table" -> TableFunctionRPNItem(f.name, f.args)
      [] OTHER -> DerivedRPNItem(f.subquery, f.alias)

RECURSIVE PlacedFactor(_, _, _), PlacedTWJ(_, _, _), SizeOfJoins(_, _)

\* the RPN items of the first k joins of a join list
SizeOfJoins(joins, k) ==
    IF k = 0
    THEN 0
    ELSE SizeOfJoins(joins, k - 1) + SizeFactor(joins[k].relation) + 1

\* the items of factor f are seq[start+1 ..], operands in source order and
\* every join operator right after the items of its joined relation
PlacedFactor(seq, f, start) ==
    IF f.kind = "NestedJoin"
    THEN PlacedTWJ(seq, f.nested[1], start)
    ELSE start + 1 <= Len(seq) /\ seq[start + 1] = OperandOf(f)

PlacedTWJ(seq, t, start) ==
    /\ PlacedFactor(seq, t.relation, start)
    /\ \A k \in 1..Len(t.joins) :
         LET s == start + SizeFactor(t.relation) + SizeOfJoins(t.joins, k - 1)
             e == s + SizeFactor(t.joins[k].relation) + 1
         IN  /\ PlacedFactor(seq, t.joins[k].relation, s)
             /\ e <= Len(seq)
             /\ seq[e] = JoinRPNItem(t.joins[k].join_operator)

RECURSIVE EntryStart(_, _)

\* the items before those of the i-th top-level entry: the earlier entries
\* and one implicit operator after each of them but the first
EntryStart(exprs, i) ==
    IF i = 1
    THEN 0
    ELSE EntryStart(exprs, i - 1) + SizeTWJ(exprs[i - 1])
         + (IF i > 2 THEN 1 ELSE 0)

PlacedFrom(seq, exprs) ==
    /\ \A i \in 1..Len(exprs) :
         /\ PlacedTWJ(seq, exprs[i], EntryStart(exprs, i))
         /\ i > 1 =>
              LET e == EntryStart(exprs, i) + SizeTWJ(exprs[i]) + 1 IN
              e <= Len(seq) /\ seq[e] = JoinRPNItem("CrossJoin")
    /\ Len(seq) = EntryStart(exprs, Len(exprs)) + SizeTWJ(exprs[Len(exprs)])
                  + (IF Len(exprs) > 1 THEN 1 ELSE 0)

\* FROM a, b JOIN c ON b.x = c.x
FromABJoinC ==
    << [relation |-> TableF(<<"a">>, <<>>, None, <<>>), joins |-> <<>>],
       [relation |-> TableF(<<"b">>, <<>>, None, <<>>),
        joins |-> << [relation |-> TableF(<<"c">>, <<>>, None, <<>>),
                      join_operator |-> "Inner"] >>] >>

NoError == Error("", "")

\* a relation operand that names, with one identifier and no alias, a table
\* the catalog holds in the current database
CatalogTableOperand(item) ==
    /\ item.kind = "Table"
    /\ item.alias = None
    /\ Len(item.name) = 1
    /\ current_database \in DOMAIN Catalog
    /\ item.name[1] \in DOMAIN Catalog[current_database]

\* the stored columns of such a table, qualified by database and table
QualifiedColumns(item) ==
    LET stored == Catalog[current_database][item.name[1]] IN
    [j \in 1..Len(stored) |->
        [prefix |-> <<current_database, item.name[1]>>, name |-> stored[j]]]

RECURSIVE ConcatOperands(_, _)

\* the schemas of the operands of seq from item i on, left then right
ConcatOperands(seq, i) ==
    IF i > Len(seq)
    THEN <<>>
    ELSE (IF IsOperand(seq[i]) THEN QualifiedColumns(seq[i]) ELSE <<>>)
         \o ConcatOperands(seq, i + 1)

Col(database, table, name) == [prefix |-> <<database, table>>, name |-> name]

(***************************************************************************)
(* C1.  create folds every Join of the RPN: it pops the two schemas        *)
(* resolved last and pushes their concatenation, left then right, so a     *)
(* clause joining catalog tables succeeds with the columns of its tables   *)
(* in source order; FROM a, b JOIN c ON b.x = c.x gives                    *)
(* [a.id, b.id, b.x, c.x, c.y].                                            *)
(***************************************************************************)
C1_JoinConcatenates ==
    ( /\ pc = "done"
      /\ NumJoinItems(rpn) > 0
      /\ \A i \in 1..Len(rpn) : IsOperand(rpn[i]) => CatalogTableOperand(rpn[i]) )
    => /\ result[1].ok
       /\ result[1].state[1].joined_schema = ConcatOperands(rpn, 1)
       /\ (tables = FromABJoinC /\ current_database = "default") =>
            result[1].state[1].joined_schema =
                << Col("default", "a", "id"), Col("default", "b", "id"),
                   Col("default", "b", "x"), Col("default", "c", "x"),
                   Col("default", "c", "y") >>

(***************************************************************************)
(* C2.  The RPN of every accepted FROM clause, run as a stack program      *)
(* (push on an operand, pop two and push one on a Join), never meets a     *)
(* Join with fewer than two values and ends with exactly one value.        *)
(***************************************************************************)
C2_RpnReducesToOne == pc = "loop" => StackRun(rpn, 1, 0) = 1

C2_Witness ==
    /\ pc = "loop"
    /\ Len(tables) = 2
    /\ HasNestedJoin(tables)
    /\ NumJoinItems(rpn) = 2

(***************************************************************************)
(* C3.  For n top-level entries and m explicit join clauses the RPN holds  *)
(* n + m operands and n + m - 1 Join operators; for the empty clause it    *)
(* holds one operand and no operator.                                      *)
(***************************************************************************)
C3_OperandAndJoinCounts ==
    pc = "loop" =>
        IF Len(tables) = 0
        THEN NumOperands(rpn) = 1 /\ NumJoinItems(rpn) = 0
        ELSE /\ NumOperands(rpn) = Len(tables) + NumJoinClauses(tables)
             /\ NumJoinItems(rpn) = Len(tables) + NumJoinClauses(tables) - 1

C3_Witness ==
    /\ pc = "loop"
    /\ Len(tables) = 2
    /\ NumJoinClauses(tables) = 1
    /\ NumOperands(rpn) = 3
    /\ NumJoinItems(rpn) = 2

(***************************************************************************)
(* C4.  In the RPN the operands stand in the left-to-right order of the    *)
(* source, the operator of each explicit join stands right after the items *)
(* of its joined relation, and one CrossJoin stands right after the items  *)
(* of every top-level entry but the first; FROM a, b JOIN c gives          *)
(* [a, b, c, JOIN, CROSS-JOIN].                                            *)
(***************************************************************************)
C4_RpnOrder ==
    (pc = "loop" /\ Len(tables) > 0) =>
        /\ PlacedFrom(rpn, tables)
        /\ tables = FromABJoinC =>
             rpn = << TableRPNItem(<<"a">>, None), TableRPNItem(<<"b">>, None),
                      TableRPNItem(<<"c">>, None), JoinRPNItem("Inner"),
                      JoinRPNItem("CrossJoin") >>

C4_Witness == pc = "loop" /\ tables = FromABJoinC /\ Len(rpn) = 5

\* the calls that leave create: catalog fetch, argument analysis, table
\* function fetch, nested statement analysis
ExternalFns == {"get_table", "analyze", "get_table_function", "analyze_statement"}

\* the operands among the first i - 1 items of the RPN
OperandsBefore(i) == NumOperands(SubSeq(rpn, 1, i - 1))

(***************************************************************************)
(* C5.  The operands are resolved one at a time in sequence order: at most *)
(* one resolution is in flight, and every external call of an operand is   *)
(* made when the schemas of all operands before it have been pushed.       *)
(***************************************************************************)
C5_OneResolutionAtATime ==
    /\ Cardinality(DOMAIN resolving) <= 1
    /\ \A i \in DOMAIN resolving : Len(analyzed_tables) = OperandsBefore(i)
    /\ \A k \in 1..Len(calls) :
         /\ calls[k].fn \in ExternalFns =>
                calls[k].pushed = OperandsBefore(calls[k].item)
         /\ \A l \in 1..Len(calls) : k < l => calls[k].item <= calls[l].item

C5_Witness ==
    /\ pc = "loop"
    /\ Len(analyzed_tables) = 1
    /\ 2 \in DOMAIN resolving
    /\ \E k \in 1..Len(calls) :
         calls[k].item = 2 /\ calls[k].fn = "analyze_statement"
    /\ \E k \in 1..Len(calls) :
         calls[k].item = 1 /\ calls[k].fn = "get_table_function"

RECURSIVE ArgError(_, _)

\* the error of the first argument, from the i-th on, whose analysis fails
ArgError(args, i) ==
    IF i > Len(args)
    THEN NoError
    ELSE IF ~analyze_arg(args[i].arg).ok
         THEN analyze_arg(args[i].arg).err
         ELSE ArgError(args, i + 1)

\* the error the i-th item of the RPN makes create return, NoError if none;
\* a table function with no name makes create panic, which stops it too
ItemError(item) ==
    CASE item.kind = "Join" ->
           Error("UnImplement", "Unimplemented SELECT JOIN yet.")
      [] item.kind = "Table" ->
           LET r == resolve_table(item.name, current_database) IN
           IF ~r.ok THEN r.err ELSE get_table(r.database, r.table).err
      [] item.kind = "TableFunction" ->
           IF Len(item.name) >= 2
           THEN Error("BadArguments", "Currently table can't have arguments")
           ELSE IF Len(item.name) = 0
           THEN Error("panic", "index out of bounds")
           ELSE IF ArgError(item.args, 1) /= NoError
                THEN ArgError(item.args, 1)
                ELSE get_table_function(item.name[1], <<>>).err
      [] OTHER ->
           IF ~try_from(item.subquery).ok
           THEN try_from(item.subquery).err
           ELSE IF ~analyze_statement(item.subquery).ok
                THEN analyze_statement(item.subquery).err
                ELSE IF analyze_statement(item.subquery).variant /= "SelectQuery"
                     THEN Error("LogicalError",
                              "Logical error, subquery analyzed data must be SelectQuery, it's a bug.")
                     ELSE NoError

\* the first item of seq that fails, 0 if none does
FirstFailing(seq) ==
    LET failing == {i \in 1..Len(seq) : ItemError(seq[i]) /= NoError} IN
    IF failing = {}
    THEN 0
    ELSE CHOOSE i \in failing : \A j \in failing : i <= j

(***************************************************************************)
(* C6.  create returns the first error at once: the error of the builder   *)
(* before any item is taken or any call made, else the error of the first  *)
(* failing item with no later item taken and no call made for one; an      *)
(* error comes with no state, and a state comes only when nothing failed.  *)
(***************************************************************************)
C6_FirstErrorReturned ==
    LET b == build(tables) IN
    /\ pc = "done" => result /= None
    /\ (result /= None /\ ~result[1].ok) =>
         /\ pc = "done"
         /\ result[1].state = None
         /\ resolving = <<>>
         /\ IF ~b.ok
            THEN /\ result[1].err = b.err
                 /\ calls = <<>>
                 /\ idx = 1
                 /\ analyzed_tables = <<>>
            ELSE LET k == FirstFailing(rpn) IN
                 IF k = 0
                 THEN result[1].err.code = "LogicalError" /\ idx = Len(rpn) + 1
                 ELSE /\ idx = k + 1
                      /\ result[1].err = ItemError(rpn[k])
                      /\ \A c \in 1..Len(calls) : calls[c].item <= k
    /\ (result /= None /\ result[1].ok) => b.ok /\ FirstFailing(rpn) = 0
    /\ (result = None /\ pc = "loop") =>
         \A i \in 1..(idx - 1) :
             i \notin DOMAIN resolving => ItemError(rpn[i]) = NoError

C6_Witness ==
    /\ pc = "done"
    /\ ~result[1].ok
    /\ result[1].err.code = "UnknownTable"
    /\ Len(rpn) = 3
    /\ idx = 3
    /\ Len(analyzed_tables) = 1
    /\ calls /= <<>>

RECURSIVE AnyFactor(_, _), AnyFactorTWJ(_, _)

\* some table factor of the join tree of f, f included, is in the set bad
AnyFactor(f, bad) ==
    IF f.kind = "NestedJoin" THEN AnyFactorTWJ(f.nested[1], bad) ELSE f \in bad

AnyFactorTWJ(t, bad) ==
    \/ AnyFactor(t.relation, bad)
    \/ \E k \in 1..Len(t.joins) : AnyFactor(t.joins[k].relation, bad)

AnyFactorFrom(exprs, bad) ==
    \E i \in 1..Len(exprs) : AnyFactorTWJ(exprs[i], bad)

\* a derived table declared LATERAL, or a table factor with a hint list
LateralOrHinted ==
    {f \in Leaves \cup ShapeLeaves :
        \/ f.kind = "Derived" /\ f.lateral
        \/ f.kind = "Table" /\ ~IsEmpty(f.with_hints)}

(***************************************************************************)
(* C7.  A clause that holds, anywhere in its join tree, a LATERAL derived  *)
(* table or a table factor with WITH hints is rejected by the builder, and *)
(* so by create, with an error of the Syntax/Unsupported kind.             *)
(***************************************************************************)
C7_LateralAndHintsRejected ==
    (pc /= "build" /\ AnyFactorFrom(tables, LateralOrHinted)) =>
        LET b == build(tables) IN
        /\ ~b.ok
        /\ KindOf(b.err.code) = "Unsupported"
        /\ pc = "done"
        /\ ~result[1].ok
        /\ result[1].err = b.err
        /\ calls = <<>>

C7_Witness ==
    /\ pc = "done"
    /\ Len(tables) = 1
    /\ tables[1].relation.kind = "NestedJoin"
    /\ tables[1].relation.nested[1].relation = TableF(<<"a">>, <<>>, None, <<>>)
    /\ ~IsEmpty(tables[1].relation.nested[1].joins[1].relation.with_hints)
    /\ result[1].err.code = "SyntaxException"

\* a table function with an alias or with a name of two parts or more
BadTableFunctions ==
    {f \in Leaves \cup ShapeLeaves :
        /\ f.kind = "Table"
        /\ ~IsEmpty(f.args)
        /\ (f.alias /= None \/ Len(f.name) >= 2)}

(***************************************************************************)
(* C8.  A table function with an alias or with a name of two dotted parts  *)
(* or more is rejected by the builder with an error of the                 *)
(* Syntax/Unsupported kind, before any operand of the clause is resolved.  *)
(***************************************************************************)
C8_BadTableFunctionRejectedByBuild ==
    (pc = "done" /\ AnyFactorFrom(tables, BadTableFunctions)) =>
        /\ ~build(tables).ok
        /\ calls = <<>>
        /\ ~result[1].ok
        /\ KindOf(result[1].err.code) = "Unsupported"

\* the indexes of the calls of fn made for item i
CallsOf(i, fn) ==
    {k \in 1..Len(calls) : calls[k].item = i /\ calls[k].fn = fn}

NamesDbTableForm(msg) == msg = "Table name must be ['db'].'table'"

\* what resolve_table did for the Table item i, seen from the calls made for
\* it and from the result; BadArity(n, msg) tells the message for arity n
ResolvedAs(i, BadArity(_, _)) ==
    LET name == rpn[i].name IN
    CASE Len(name) = 1 ->
           /\ Cardinality(CallsOf(i, "get_current_database")) = 1
           /\ \E k \in CallsOf(i, "get_table") :
                  calls[k].args = <<current_database, name[1]>>
      [] Len(name) = 2 ->
           /\ CallsOf(i, "get_current_database") = {}
           /\ \E k \in CallsOf(i, "get_table") :
                  calls[k].args = <<name[1], name[2]>>
      [] OTHER ->
           /\ CallsOf(i, "get_current_database") = {}
           /\ CallsOf(i, "get_table") = {}
           /\ i = idx - 1
           /\ pc = "done"
           /\ ~result[1].ok
           /\ result[1].err.code = "SyntaxException"
           /\ BadArity(Len(name), result[1].err.msg)

TableItemsTaken == {i \in 1..(idx - 1) : rpn[i].kind = "Table"}

OriginalArityMessage(n, msg) == NamesDbTableForm(msg)

AmendedArityMessage(n, msg) ==
    IF n = 0 THEN msg = "Table name is empty" ELSE NamesDbTableForm(msg)

(***************************************************************************)
(* C9, as stated.  resolve_table maps one identifier to (current database, *)
(* identifier) and two to (first, second), consulting the current database *)
(* only for one identifier; every other arity, zero included, is a syntax  *)
(* error whose message names the [db.]table form.                          *)
(***************************************************************************)
C9_AsStated == \A i \in TableItemsTaken : ResolvedAs(i, OriginalArityMessage)

(***************************************************************************)
(* C9, amended.  As above, but the syntax error of the empty name says     *)
(* "Table name is empty"; only that of three identifiers or more names the *)
(* [db.]table form.                                                        *)
(***************************************************************************)
C9_ResolveTable == \A i \in TableItemsTaken : ResolvedAs(i, AmendedArityMessage)

C9_Witness ==
    /\ pc = "done"
    /\ idx = 3
    /\ rpn[1].kind = "Table" /\ Len(rpn[1].name) = 1
    /\ rpn[2].kind = "Table" /\ Len(rpn[2].name) = 0
    /\ current_database = "default"
    /\ Cardinality(CallsOf(1, "get_current_database")) = 1
    /\ result[1].err = Error("SyntaxException", "Table name is empty")

\* the schema of a Table operand: the stored columns in their order, under
\* the alias, or under the database and the table
ExpectedTableSchema(item) ==
    LET database == IF Len(item.name) = 1 THEN current_database ELSE item.name[1]
        table == item.name[Len(item.name)]
        stored == Catalog[database][table]
        prefix == IF item.alias /= None
                  THEN <<item.alias[1]>>
                  ELSE <<database, table>>
    IN  [j \in 1..Len(stored) |-> [prefix |-> prefix, name |-> stored[j]]]

(***************************************************************************)
(* C10.  The schema of a Table operand has the columns of the stored       *)
(* schema in their stored order, each under the name-prefix [alias] when   *)
(* the operand has an alias and [database, table] otherwise, the database  *)
(* of a bare name being the current database.                              *)
(***************************************************************************)
C10_TableSchemaPrefix ==
    /\ \A k \in 1..Len(analyzed_tables) :
         (pc = "loop" /\ rpn[k].kind = "Table") =>
             analyzed_tables[k] = ExpectedTableSchema(rpn[k])
    /\ (result /= None /\ result[1].ok /\ rpn[1].kind = "Table") =>
             result[1].state[1].joined_schema = ExpectedTableSchema(rpn[1])

C10_Witness ==
    /\ pc = "loop"
    /\ Len(analyzed_tables) = 2
    /\ rpn[1].kind = "Table" /\ rpn[1].alias = Some("s")
    /\ rpn[2].kind = "Table" /\ Len(rpn[2].name) = 2
    /\ analyzed_tables[1] = <<[prefix |-> <<"s">>, name |-> "id"]>>
    /\ Len(analyzed_tables[2]) = 2

\* the schema of a Derived operand: the output columns of the nested
\* statement in their order, under the alias or under no prefix
ExpectedDerivedSchema(item) ==
    LET output == analyze_statement(item.subquery).finalize_schema
        prefix == IF item.alias /= None THEN <<item.alias[1]>> ELSE <<>>
    IN  [j \in 1..Len(output) |-> [prefix |-> prefix, name |-> output[j]]]

(***************************************************************************)
(* C11.  The schema of a Derived operand has exactly the columns of the    *)
(* nested statement's finalize schema, each under the name-prefix [alias]  *)
(* when the operand has an alias and under no prefix otherwise, never      *)
(* under a table or database name of the nested query; the clause          *)
(* FROM (SELECT x FROM b) AS s gives the joined schema [s.x].              *)
(***************************************************************************)
C11_DerivedSchemaPrefix ==
    /\ \A k \in 1..Len(analyzed_tables) :
         (pc = "loop" /\ rpn[k].kind = "Derived") =>
             analyzed_tables[k] = ExpectedDerivedSchema(rpn[k])
    /\ (result /= None /\ result[1].ok /\ rpn[1].kind = "Derived") =>
         /\ result[1].state[1].joined_schema = ExpectedDerivedSchema(rpn[1])
         /\ \A j \in 1..Len(result[1].state[1].joined_schema) :
                Len(result[1].state[1].joined_schema[j].prefix) <= 1
    /\ (result /= None /\ result[1].ok
          /\ rpn = <<DerivedRPNItem("q_select_x", Some("s"))>>) =>
         result[1].state[1].joined_schema = <<[prefix |-> <<"s">>, name |-> "x"]>>

C11_Witness ==
    /\ pc = "loop"
    /\ Len(analyzed_tables) = 2
    /\ rpn[1] = DerivedRPNItem("q_select_x", Some("s"))
    /\ rpn[2] = DerivedRPNItem("q_select_id_x", None)
    /\ analyzed_tables[1] = <<[prefix |-> <<"s">>, name |-> "x"]>>
    /\ analyzed_tables[2] = <<[prefix |-> <<>>, name |-> "id"],
                              [prefix |-> <<>>, name |-> "x"]>>

(***************************************************************************)
(* C12.  For an empty FROM clause build returns exactly one Table operand  *)
(* naming system.one with no alias, and create returns a state whose       *)
(* joined schema is the schema of system.one in its column order, under    *)
(* system.one, whatever the current database, which is not consulted.      *)
(***************************************************************************)
C12_EmptyFromDummyTable ==
    IsEmpty(tables) =>
        /\ build(tables) = BOk(<<TableRPNItem(<<"system", "one">>, None)>>)
        /\ pc /= "build" => rpn = <<TableRPNItem(<<"system", "one">>, None)>>
        /\ \A k \in 1..Len(calls) : calls[k].fn /= "get_current_database"
        /\ pc = "done" =>
              /\ result[1].ok
              /\ [j \in 1..Len(result[1].state[1].joined_schema) |->
                     result[1].state[1].joined_schema[j].name]
                      = Catalog["system"]["one"]
              /\ result[1].state[1].joined_schema =
                     <<[prefix |-> <<"system", "one">>, name |-> "dummy"]>>

C12_Witness ==
    /\ IsEmpty(tables)
    /\ current_database = "db1"
    /\ pc = "done"
    /\ result[1].ok
    /\ Len(calls) = 1 /\ calls[1].args = <<"system", "one">>

\* the schema of an operand of any kind
ExpectedOperandSchema(item) ==
    CASE item.kind = "Table" -> ExpectedTableSchema(item)
      [] item.kind = "Derived" -> ExpectedDerivedSchema(item)
      [] item.kind = "TableFunction" ->
           [j \in 1..Len(TableFunctions[item.name[1]]) |->
               [prefix |-> <<>>, name |-> TableFunctions[item.name[1]][j]]]

StateFields ==
    {"joined_schema", "before_aggr_schema", "after_aggr_schema",
     "finalize_schema", "relation", "filter_predicate",
     "before_group_by_expressions", "group_by_expressions",
     "aggregate_expressions", "before_having_expressions",
     "having_predicate", "order_by_expressions", "projection_expressions",
     "projection_aliases"}

ExpressionLists ==
    {"before_group_by_expressions", "group_by_expressions",
     "aggregate_expressions", "before_having_expressions",
     "order_by_expressions", "projection_expressions"}

(***************************************************************************)
(* C13.  Every state create returns has the resolved joined schema and     *)
(* nothing else: relation, filter predicate and having predicate are       *)
(* absent, every expression list and the projection alias map are empty,   *)
(* the before- and after-aggregation schemas are the empty schema and the  *)
(* finalize schema has no column.                                          *)
(***************************************************************************)
C13_ReturnedStateOnlyJoinedSchema ==
    (result /= None /\ result[1].ok) =>
        LET state == result[1].state[1] IN
        /\ DOMAIN state = StateFields
        /\ state.joined_schema = ExpectedOperandSchema(rpn[1])
        /\ Len(state.joined_schema) > 0
        /\ state.relation = None
        /\ state.filter_predicate = None
        /\ state.having_predicate = None
        /\ \A f \in ExpressionLists : state[f] = <<>>
        /\ state.projection_aliases = <<>>
        /\ state.before_aggr_schema = AnalyzeQuerySchemaNone
        /\ state.after_aggr_schema = AnalyzeQuerySchemaNone
        /\ Len(state.finalize_schema) = 0

C13_Witness ==
    /\ pc = "done"
    /\ result[1].ok
    /\ rpn = <<TableRPNItem(<<"b">>, None)>>
    /\ Len(result[1].state[1].joined_schema) = 2
    /\ result[1].state[1].finalize_schema = DataSchemaEmpty

\* the loop went through every item of the rpn
Consumed ==
    /\ pc = "loop"
    /\ DOMAIN resolving = {}
    /\ idx > Len(rpn)

RpnBug == Error("LogicalError", "Logical error: this is relation rpn bug.")

(***************************************************************************)
(* C14.  When the loop has consumed the whole RPN and the number of        *)
(* schemas left is not one, create returns no state and fails with the     *)
(* internal-logic error, which is of a kind other than syntax,             *)
(* unimplemented, not-found and bad-arguments; and that error is returned  *)
(* in no other case.                                                       *)
(***************************************************************************)
C14_LengthCheck ==
    /\ [][(Consumed /\ Len(analyzed_tables) /= 1) =>
            /\ result = None
            /\ pc' = "done"
            /\ result' = Some(Err(RpnBug))
            /\ result'[1].state = None
            /\ KindOf(result'[1].err.code) = "Internal"
            /\ KindOf(result'[1].err.code)
                   \notin {"Unsupported", "NotFound", "BadArguments"}]_vars
    /\ []((pc = "done" /\ result[1].err = RpnBug) =>
            /\ ~result[1].ok
            /\ idx > Len(rpn)
            /\ Len(analyzed_tables) /= 1)

C14_Witness ==
    /\ pc = "done"
    /\ Len(rpn) = 2
    /\ Len(analyzed_tables) = 2
    /\ result[1] = Err(RpnBug)

\* the Derived items the loop has taken whose statement try_from accepted
DerivedItemsAnalyzed ==
    {i \in 1..(idx - 1) :
        rpn[i].kind = "Derived" /\ try_from(rpn[i].subquery).ok}

NotSelectQuery ==
    Error("LogicalError",
          "Logical error, subquery analyzed data must be SelectQuery, it's a bug.")

\* item i is the one create returned on
ReturnedOn(i) == pc = "done" /\ i = idx - 1 /\ ~result[1].ok

(***************************************************************************)
(* C15.  analyze_subquery runs the analysis of the whole nested statement, *)
(* once.  Of a select-query result it uses the finalize schema only; any   *)
(* other variant of AnalyzedResult is the internal-logic error; an error   *)
(* of the nested analysis is returned unchanged.                           *)
(***************************************************************************)
C15_SubqueryAnalysis ==
    \A i \in DerivedItemsAnalyzed :
        LET analyzed == analyze_statement(rpn[i].subquery) IN
        /\ Cardinality(CallsOf(i, "analyze_statement")) = 1
        /\ \A k \in CallsOf(i, "analyze_statement") :
               calls[k].args = <<rpn[i].subquery>>
        /\ i \notin DOMAIN resolving =>
               CASE ~analyzed.ok ->
                      ReturnedOn(i) /\ result[1].err = analyzed.err
                 [] analyzed.variant /= "SelectQuery" ->
                      /\ ReturnedOn(i)
                      /\ result[1].err = NotSelectQuery
                      /\ KindOf(result[1].err.code) = "Internal"
                 [] OTHER ->
                      /\ ~ReturnedOn(i)
                      /\ pc = "loop" =>
                            [j \in 1..Len(analyzed_tables[i]) |->
                                analyzed_tables[i][j].name]
                                = analyzed.finalize_schema
                      /\ (pc = "done" /\ result[1].ok) =>
                            [j \in 1..Len(result[1].state[1].joined_schema) |->
                                result[1].state[1].joined_schema[j].name]
                                = analyzed.finalize_schema

C15_Witness ==
    /\ pc = "done"
    /\ idx = 3
    /\ rpn[1] = DerivedRPNItem("q_select_x", Some("s"))
    /\ rpn[2] = DerivedRPNItem("q_explain", Some("s"))
    /\ Len(analyzed_tables) = 1
    /\ analyzed_tables[1] = <<[prefix |-> <<"s">>, name |-> "x"]>>
    /\ result[1].err = NotSelectQuery

IsLeap(y) == (y % 4 = 0 /\ y % 100 /= 0) \/ y % 400 = 0

DaysInMonth(y, m) ==
    CASE m = 2 -> IF IsLeap(y) THEN 29 ELSE 28
      [] m \in {4, 6, 9, 11} -> 30
      [] OTHER -> 31

\* the leap years from year 1 to year y
LeapYearsTo(y) == y \div 4 - y \div 100 + y \div 400

\* the days from 1970-01-01 to the first day of year y, y >= 1970
DaysBeforeYear(y) ==
    365 * (y - 1970) + LeapYearsTo(y - 1) - LeapYearsTo(1969)

RECURSIVE DaysBeforeMonth(_, _)

\* the days from the first day of year y to the first day of its month m
DaysBeforeMonth(y, m) ==
    IF m <= 1 THEN 0 ELSE DaysBeforeMonth(y, m - 1) + DaysInMonth(y, m - 1)

\* the day offset d falls in month m of year y
InMonth(d, y, m) ==
    /\ y >= 1970
    /\ m \in 1..12
    /\ DaysBeforeYear(y) + DaysBeforeMonth(y, m) <= d
    /\ d < DaysBeforeYear(y) + DaysBeforeMonth(y, m) + DaysInMonth(y, m)

(***************************************************************************)
(* C16.  ToYYYYMMFunction::eval over a Date16, Date32 or DateTime32 column *)
(* of n rows returns a UInt32 column of n rows whose i-th value is         *)
(* year * 100 + month of the i-th input; the day offsets 0, 1, 2, 3 and    *)
(* the timestamp 0 give 197001.                                            *)
(***************************************************************************)
C16_ToYYYYMM ==
    series /= None =>
        /\ series[1].data_type = "UInt32"
        /\ Len(series[1].values) = Len(column.values)
        /\ \A i \in 1..Len(column.values) :
              LET v == series[1].values[i]
                  d == DayOf(column.data_type, column.values[i])
              IN  /\ v \in Nat
                  /\ InMonth(d, v \div 100, v % 100)
                  /\ d \in 0..3 => v = 197001

C16_Witness ==
    /\ series /= None
    /\ column = Column("Date16", <<0, 1, 2, 3>>)
    /\ series[1].values = <<197001, 197001, 197001, 197001>>

TableFunctionItemsTaken ==
    {i \in 1..(idx - 1) : rpn[i].kind = "TableFunction"}

\* the place of call k among the calls of fn made for item i
PlaceOf(i, fn, k) == Cardinality({k2 \in CallsOf(i, fn) : k2 <= k})

(***************************************************************************)
(* C17.  analyze_table_function works in a fixed order.  A name of two     *)
(* parts or more is rejected before any argument is analysed.  Otherwise   *)
(* the arguments, named or positional, are analysed in source order by an  *)
(* analyzer bound to the empty schema; the registry is asked once, after   *)
(* every argument was analysed with success, with the analysed arguments   *)
(* in the same order; the schema it returns gets no name-prefix.           *)
(***************************************************************************)
C17_TableFunctionOrder ==
    \A i \in TableFunctionItemsTaken :
        LET item == rpn[i]
            analyses == CallsOf(i, "analyze")
            fetches == CallsOf(i, "get_table_function")
        IN
        IF Len(item.name) >= 2
        THEN /\ analyses = {} /\ fetches = {}
             /\ ReturnedOn(i)
             /\ result[1].err.code = "BadArguments"
        ELSE /\ Cardinality(analyses) <= Len(item.args)
             /\ \A k \in analyses :
                    calls[k].args =
                        <<item.args[PlaceOf(i, "analyze", k)].arg,
                          AnalyzeQuerySchemaNone>>
             /\ Cardinality(fetches) <= 1
             /\ \A g \in fetches :
                    /\ Cardinality(analyses) = Len(item.args)
                    /\ \A k \in analyses : k < g
                    /\ \A n \in 1..Len(item.args) :
                           analyze_arg(item.args[n].arg).ok
                    /\ calls[g].args =
                           <<item.name[1],
                             [n \in 1..Len(item.args) |->
                                 analyze_arg(item.args[n].arg).expr]>>
             /\ (pc = "loop" /\ i \notin DOMAIN resolving) =>
                    /\ Cardinality(fetches) = 1
                    /\ \A j \in 1..Len(analyzed_tables[i]) :
                           analyzed_tables[i][j].prefix = <<>>
                    /\ [j \in 1..Len(analyzed_tables[i]) |->
                           analyzed_tables[i][j].name]
                           = TableFunctions[item.name[1]]

C17_Witness ==
    /\ pc = "loop"
    /\ Len(analyzed_tables) = 1
    /\ rpn[1] = TableFunctionRPNItem(<<"numbers">>,
                                     <<Lit("1"), NamedArg("n", "2")>>)
    /\ Len(calls) = 3
    /\ calls[1].args = <<"1", AnalyzeQuerySchemaNone>>
    /\ calls[2].args = <<"2", AnalyzeQuerySchemaNone>>
    /\ calls[3].args = <<"numbers", <<<<"Literal", "1">>, <<"Literal", "2">>>>>>
    /\ analyzed_tables[1] = <<[prefix |-> <<>>, name |-> "number"]>>

(***************************************************************************)
(* C18.  create builds the whole RPN before it resolves anything: no       *)
(* catalog fetch, table-function fetch, argument analysis or nested        *)
(* analysis is started before build has visited the whole FROM clause      *)
(* without error, and a clause the builder rejects, be it after valid      *)
(* relations, makes create fail with the builder's error and no call made. *)
(***************************************************************************)
C18_BuildBeforeResolve ==
    IF pc = "build"
    THEN calls = <<>> /\ DOMAIN resolving = {} /\ analyzed_tables = <<>>
    ELSE LET built == build(tables) IN
         IF built.ok
         THEN rpn = built.rpn
         ELSE /\ pc = "done"
              /\ calls = <<>> /\ DOMAIN resolving = {} /\ analyzed_tables = <<>>
              /\ result[1] = Err(built.err)

C18_Witness ==
    /\ pc = "done"
    /\ Len(tables) = 2
    /\ tables[1].relation = TableF(<<"a">>, <<>>, None, <<>>)
    /\ tables[2].relation = DerivedF(TRUE, "q_select_x", Some("s"))
    /\ ~build(tables).ok
    /\ calls = <<>>
    /\ result[1].err.code = "UnImplement"

JoinPlaces == {j \in 1..Len(rpn) : rpn[j].kind = "Join"}

FirstJoin == CHOOSE j \in JoinPlaces : \A j2 \in JoinPlaces : j <= j2

(***************************************************************************)
(* C19.  create returns a state only when the built RPN is one relation    *)
(* operand and no Join.  When the RPN holds a Join the loop never goes     *)
(* past the first Join item: create returns an error on it, having         *)
(* resolved the operands before it, or earlier.  The error                 *)
(* "this is relation rpn bug" is returned for no RPN the builder makes.    *)
(***************************************************************************)
C19_StateOnlyForSingleOperand ==
    /\ (result /= None /\ result[1].ok) =>
          /\ rpn = build(tables).rpn
          /\ Len(rpn) = 1
          /\ IsOperand(rpn[1])
          /\ JoinPlaces = {}
    /\ JoinPlaces /= {} =>
          /\ idx <= FirstJoin + 1
          /\ pc = "done" => ~result[1].ok
          /\ idx = FirstJoin + 1 =>
                /\ pc = "done"
                /\ result[1].err =
                       Error("UnImplement", "Unimplemented SELECT JOIN yet.")
                /\ Len(analyzed_tables) = FirstJoin - 1
    /\ pc = "done" => result[1].err /= RpnBug

C19_Witness ==
    /\ pc = "done"
    /\ Len(rpn) = 3
    /\ FirstJoin = 3
    /\ idx = 4
    /\ Len(analyzed_tables) = 2
    /\ result[1].err.code = "UnImplement"

\* the calls of fn made so far, whatever the item and the statement
CallCount(fn) == Cardinality({k \in 1..Len(calls) : calls[k].fn = fn})

\* the clause is one derived subquery of the chain c
OneDerivedOf(c) ==
    /\ Len(tables) = 1
    /\ tables[1].relation.kind = "Derived"
    /\ ChainOf(tables[1].relation.subquery) = c

\* what create returns for a clause of one derived subquery, by what the
\* innermost statement selects from and by nothing else
OutcomeByChain ==
    /\ OneDerivedOf("ok") =>
          /\ result[1].ok
          /\ result[1].state[1].joined_schema =
                 from_schema(<<"x">>,
                             IF tables[1].relation.alias = None
                             THEN <<>>
                             ELSE <<tables[1].relation.alias[1]>>)
    /\ OneDerivedOf("missing") =>
          result[1] = Err(get_table("default", "zz").err)
    /\ OneDerivedOf("join") =>
          result[1] =
              Err(Error("UnImplement", "Unimplemented SELECT JOIN yet."))

\* a step consumes at most one item of the running create and gives a
\* suspended create back its own place
ConsumesOnce ==
    /\ frames' = frames => (rpn' = rpn \/ pc = "build") /\ idx' \in {idx, idx + 1}
    /\ Len(frames') < Len(frames) =>
          /\ idx' = frames[Len(frames)].idx
          /\ rpn' = frames[Len(frames)].rpn
    /\ Len(frames') > Len(frames) =>
          /\ frames'[Len(frames')].idx = idx
          /\ frames'[Len(frames')].rpn = rpn

\* the derived operands reached and the runs of create started for them
OneRunPerDerived ==
    /\ CallCount("create") <= CallCount("analyze_statement")
    /\ CallCount("analyze_statement") <= CallCount("create") + 1
    /\ CallCount("analyze_statement") = CallCount("create") + 1 =>
          /\ pc = "loop"
          /\ \E i \in DOMAIN resolving : rpn[i].kind = "Derived"
    /\ \A k \in 1..Len(calls) :
          calls[k].fn = "create" =>
              /\ k > 1
              /\ calls[k - 1].fn = "analyze_statement"
              /\ calls[k - 1].item = calls[k].item
              /\ calls[k - 1].depth = calls[k].depth
              /\ calls[k - 1].args = calls[k].args
    /\ (Returned /\ Len(tables) = 1 /\ tables[1].relation.kind = "Derived"
          /\ ChainOf(tables[1].relation.subquery) /= "join") =>
          CallCount("create") = LevelOf(tables[1].relation.subquery)

(***************************************************************************)
(* C20.  With collaborators that always answer, create terminates on a     *)
(* FROM clause whose derived subqueries nest to any depth: every RPN is    *)
(* finite and each of its items is consumed at most once, each Derived     *)
(* operand reached starts exactly one run of the analysis of its nested    *)
(* statement, and what create returns does not depend on the depth: no     *)
(* error is made for nesting too deep.                                     *)
(***************************************************************************)
C20_NestedTermination ==
    /\ <>Returned
    /\ [][ConsumesOnce]_vars
    /\ [](idx <= Len(rpn) + 1 /\ Len(frames) <= CallCount("create"))
    /\ []OneRunPerDerived
    /\ [](Returned => OutcomeByChain)

C20_Witness ==
    /\ Returned
    /\ OneDerivedOf("ok")
    /\ LevelOf(tables[1].relation.subquery) = 3
    /\ CallCount("create") = 3
    /\ result[1].ok
    /\ result[1].state[1].joined_schema = <<[prefix |-> <<"s">>, name |-> "x"]>>

(***************************************************************************)
(* DateTimeDeserializer: the builder against the calls that were made.     *)
(***************************************************************************)
\* the last finish_to_series of the log, 0 if there is none
LastFinish(log) ==
    LET finishes == {i \in 1..Len(log) : log[i].fn = "finish_to_series"} IN
    IF finishes = {}
    THEN 0
    ELSE CHOOSE i \in finishes : \A j \in finishes : j <= i

\* the length of the builder when the i-th call returned
LengthAfter(i) ==
    IF i = 0
    THEN 0
    ELSE IF i < Len(calls)
         THEN calls[i + 1].before
         ELSE Len(deserializer[1].builder)

\* the elements the i-th call appended
AppendedBy(i) == calls[i].appended

\* the rows of a batch from the first on that lie whole in the reader
ReadableRows(b) ==
    Cardinality({r \in 0..(b.rows - 1) :
        \A q \in 0..r : b.step * q + ScalarSize <= Len(b.reader)})

\* the elements the claim counts for a call: one for a successful de,
\* de_text or de_null, the rows of a successful de_batch, none otherwise
SuccessfulRows(c) == IF c.outcome = "Ok" THEN c.rows ELSE 0

\* the elements a call appends: those of a successful call, and the rows a
\* de_batch had read when it failed
AppendedRows(c) ==
    IF c.outcome = "Ok"
    THEN c.rows
    ELSE IF c.fn = "de_batch" THEN ReadableRows(c.input) ELSE 0

RECURSIVE SumFrom(_, _)

\* the sum of counts[i] from the i-th on
SumFrom(counts, i) ==
    IF i > Len(counts) THEN 0 ELSE counts[i] + SumFrom(counts, i + 1)

\* the text is the word null in some mix of upper and lower case
IsNullText(text) ==
    /\ Len(text) = 4
    /\ text[1] \in {"n", "N"}
    /\ text[2] \in {"u", "U"}
    /\ text[3] \in {"l", "L"}
    /\ text[4] \in {"l", "L"}

\* the scalars of the first n rows of a batch, in row order
BatchRows(b, n) ==
    [row \in 1..n |->
        Some(read_scalar(SubSeq(b.reader, b.step * (row - 1) + 1,
                                Len(b.reader))).value)]

\* a successful de, de_text or de_null appended exactly one element
OneElementPerSuccessfulCall ==
    \A i \in 1..Len(calls) :
        (calls[i].fn \in {"de", "de_text", "de_null"}
             /\ calls[i].outcome = "Ok")
            => Len(AppendedBy(i)) = 1

\* a de or de_text that returned an error appended nothing
ErrorAppendsNothing ==
    \A i \in 1..Len(calls) :
        (calls[i].fn \in {"de", "de_text"} /\ calls[i].outcome = "Err")
            => AppendedBy(i) = <<>>

\* de_text appended a null exactly when the text is null in any case
NullExactlyForNullText ==
    \A i \in 1..Len(calls) :
        calls[i].fn = "de_text"
            => (AppendedBy(i) = <<None>> <=> IsNullText(calls[i].input))

\* a successful de_batch appended the scalars of its rows in row order
BatchRowsInOrder ==
    \A i \in 1..Len(calls) :
        (calls[i].fn = "de_batch" /\ calls[i].outcome = "Ok")
            => AppendedBy(i) = BatchRows(calls[i].input, calls[i].rows)

\* a de_batch that did not succeed appended the rows before the one it
\* could not read, in row order
FailedBatchKeepsReadRows ==
    \A i \in 1..Len(calls) :
        (calls[i].fn = "de_batch" /\ calls[i].outcome /= "Ok")
            => AppendedBy(i)
                   = BatchRows(calls[i].input, ReadableRows(calls[i].input))

\* C21 as stated: after any sequence of calls that returned, the builder
\* is longer than finish_to_series last left it by the number of successful
\* de, de_text and de_null calls plus the rows of the successful de_batch
\* calls; each successful de, de_text or de_null appended exactly one
\* element, a de or de_text that returned an error appended nothing,
\* de_batch appended its rows in row order, and de_text appended a null
\* exactly when the text equals null ignoring ASCII case.
C21_AsStated ==
    pc = "de" =>
        /\ Len(deserializer[1].builder) =
               LengthAfter(LastFinish(calls))
                   + SumFrom([i \in 1..Len(calls) |-> SuccessfulRows(calls[i])],
                             LastFinish(calls) + 1)
        /\ OneElementPerSuccessfulCall
        /\ ErrorAppendsNothing
        /\ BatchRowsInOrder
        /\ NullExactlyForNullText

\* C21 amended: the builder is longer than finish_to_series last left it by
\* the number of successful de, de_text and de_null calls plus the rows of
\* the successful de_batch calls plus the rows each failed de_batch had
\* read before the row it could not read; each successful de, de_text or
\* de_null appended exactly one element, a de or de_text that returned an
\* error appended nothing, de_batch appended the rows it read in row
\* order, whether it succeeded or not, and de_text appended a null exactly
\* when the text equals null ignoring ASCII case.
C21_BuilderLength ==
    deserializer /= None =>
        /\ Len(deserializer[1].builder) =
               LengthAfter(LastFinish(calls))
                   + SumFrom([i \in 1..Len(calls) |-> AppendedRows(calls[i])],
                             LastFinish(calls) + 1)
        /\ OneElementPerSuccessfulCall
        /\ ErrorAppendsNothing
        /\ BatchRowsInOrder
        /\ FailedBatchKeepsReadRows
        /\ NullExactlyForNullText

\* a de_batch returned an error after it had appended a row, and another
\* call succeeded
C21_Witness ==
    /\ pc = "de"
    /\ \E i \in 1..Len(calls) :
           /\ calls[i].fn = "de_batch"
           /\ calls[i].outcome = "Err"
           /\ AppendedBy(i) /= <<>>
    /\ \E i \in 1..Len(calls) :
           /\ calls[i].fn \in {"de", "de_text", "de_null"}
           /\ calls[i].outcome = "Ok"

====
